---- MODULE Spec2Model ----
(***************************************************************************)
(* Model of the AIS relay server of crates/ais/src/ais.rs: the shared      *)
(* AppState (broadcast sender, started flag), the per-connection handler   *)
(* handle_websocket, the upstream task                                     *)
(* connect_to_ais_stream_with_broadcast, and the tokio broadcast channel   *)
(* that fans parsed AIS messages out to the downstream connections.        *)
(***************************************************************************)
EXTENDS Integers, Sequences, FiniteSets, TLC

(***************************************************************************)
(* Bounds of the model.                                                    *)
(***************************************************************************)
\* upstream frames read by the relay task in one run
MaxMsgs == 2
\* retained messages of the broadcast channel (broadcast::channel(1000) in the
\* program; a small capacity makes a lagging receiver reachable)
ChannelCap == 1
\* inbound client frames handled by all downstream connections in one run
MaxInbound == 2
\* upstream tasks that can be spawned in one run
MaxTasks == 2
\* largest coordinate of the grid the box test is checked on
MaxCoord == 3

\* downstream connections (one handle_websocket call each)
Conns == {"c1", "c2"}
Tasks == 1..MaxTasks

\* Option<T>: None is the empty sequence, Some(x) the one-element sequence
None == <<>>
Some(x) == <<x>>

(***************************************************************************)
(* Data: bounding boxes, upstream JSON values, parsed AIS messages, client *)
(* text frames.                                                            *)
(***************************************************************************)
WebSocketBoundingBox(swlat, swlon, nelat, nelon) ==
  [sw_lat |-> swlat, sw_lon |-> swlon, ne_lat |-> nelat, ne_lon |-> nelon]

Box1 == WebSocketBoundingBox(1, 1, 2, 2)

\* an upstream JSON value: MetaData.latitude / MetaData.longitude are a number
\* or are absent
UpstreamValue(lat, lon) == [json |-> TRUE, latitude |-> lat, longitude |-> lon]
NotJsonValue == [json |-> FALSE, latitude |-> None, longitude |-> None]
\* one position on the south-west corner of Box1 and one outside Box1
InBox1 == UpstreamValue(Some(1), Some(1))
OutOfBox1 == UpstreamValue(Some(3), Some(1))
UpstreamValues == {InBox1, OutOfBox1}
UpstreamTexts == UpstreamValues \cup {NotJsonValue}

\* parse_ais_message: Option<f64> latitude and longitude out of MetaData
parse_ais_message(v) == [latitude |-> v.latitude, longitude |-> v.longitude]

\* is_within_bounding_box as a strict comparison
is_within_strict(ais_data, bbox) ==
  IF ais_data.latitude # None /\ ais_data.longitude # None
  THEN LET lat == ais_data.latitude[1]
           lon == ais_data.longitude[1]
       IN  lat > bbox.sw_lat /\ lat < bbox.ne_lat /\
           lon > bbox.sw_lon /\ lon < bbox.ne_lon
  ELSE FALSE

is_within_bounding_box(ais_data, bbox) ==
  IF ais_data.latitude # None /\ ais_data.longitude # None
  THEN LET lat == ais_data.latitude[1]
           lon == ais_data.longitude[1]
       IN  lat >= bbox.sw_lat /\ lat <= bbox.ne_lat /\
           lon >= bbox.sw_lon /\ lon <= bbox.ne_lon
  ELSE FALSE

\* should_send where a connection without a box gets nothing
should_send_needs_box(data, bbox) ==
  IF bbox # None THEN is_within_bounding_box(data, bbox[1]) ELSE FALSE

\* should_send of the forwarding branch
should_send(data, bbox) ==
  IF bbox # None THEN is_within_bounding_box(data, bbox[1]) ELSE TRUE

\* an inbound client text frame: a text that does not deserialize into
\* WebSocketMessage (not JSON, or JSON without a string "type" or with a
\* malformed "bounding_box"), or a WebSocketMessage with its type and optional box
ClientText(shape, type, bbox) == [shape |-> shape, type |-> type, bounding_box |-> bbox]
ClientTexts ==
  { ClientText("not_message", "", None),
    ClientText("message", "set_bounding_box", Some(Box1)),
    ClientText("message", "set_bounding_box", None),
    ClientText("message", "start_ais_stream", None),
    ClientText("message", "clear_bounding_box", Some(Box1)) }

\* serde_json::from_str::<WebSocketMessage>: Err is None
from_str(text) ==
  IF text.shape = "message"
  THEN Some([message_type |-> text.type, bounding_box |-> text.bounding_box])
  ELSE None

\* the dispatch of an inbound text frame, deciding on the box alone
dispatch_by_box(text) ==
  LET r == from_str(text) IN
  IF r = None THEN "echo"
  ELSE IF r[1].message_type = "start_ais_stream" THEN "start"
  ELSE IF r[1].bounding_box # None THEN "set" ELSE "clear"

\* the dispatch of an inbound text frame: which arm of the match handles it
dispatch(text) ==
  LET r == from_str(text) IN
  IF r = None THEN "echo"
  ELSE IF r[1].message_type = "set_bounding_box"
       THEN (IF r[1].bounding_box # None THEN "set" ELSE "clear")
  ELSE IF r[1].message_type = "start_ais_stream" THEN "start"
  ELSE "echo"

\* frames the server sends to a client besides AIS data
Reply(type, arg) == [type |-> type, arg |-> arg]
NoReply == Reply("none", None)
ConnectedReply == Reply("Connected to AIS stream", None)
EchoReply(text) == Reply("Echo: ", Some(text))

VARIABLES
  ais_sender,          \* AppState.ais_sender holds Some(sender)
  ais_stream_started,  \* AppState.ais_stream_started
  started_lock,        \* holder of the ais_stream_started mutex, or None
  chan,                \* every value sent on the broadcast channel, in order
  upstream,            \* state of each upstream task
  frames,              \* upstream frames read so far
  conn,                \* the locals of each handle_websocket call
  inbound,             \* inbound client frames handled so far
  bb_data, bb_box, bb_result,  \* one application of is_within_bounding_box
  provider,            \* which datalink provider the instance is
  status,              \* DataLinkStatus of the provider
  config,              \* the provider's stored configuration
  source_config,       \* the parsed source configuration (ais, gps)
  message_queue,       \* the provider's shared VecDeque of messages
  receiver_handle,     \* JoinHandle of the receiver task
  shutdown_tx,         \* sender of the shutdown channel
  task,                \* the receiver tasks spawned so far
  call,                \* the provider call the caller is inside of
  result,              \* what the caller's last call returned
  received,            \* the messages handed to the caller, in order
  lines_read,          \* lines read by the receiver tasks so far
  calls,               \* provider calls made so far
  sentence,            \* the line handed to a sentence parser
  parser,              \* the parser applied to it, or "none"
  parsed,              \* what the parser returned
  ship_type,           \* ShipStaticData.Type handed to the ship-type mapping
  ship_type_description,  \* the description it returned
  known_devices,       \* DiscoveryProtocol: the registry, address to DeviceInfo
  handled              \* discovery messages handled so far

shared_vars == <<ais_sender, ais_stream_started, started_lock, chan, upstream, frames>>
bb_vars == <<bb_data, bb_box, bb_result>>
link_vars == <<provider, status, config, source_config, message_queue,
               receiver_handle, shutdown_tx, task, call, result, received,
               lines_read, calls>>
parse_vars == <<sentence, parser, parsed>>
unit_vars == <<ship_type, ship_type_description, known_devices, handled>>
vars == <<ais_sender, ais_stream_started, started_lock, chan, upstream, frames,
          conn, inbound, bb_data, bb_box, bb_result, link_vars, parse_vars, unit_vars>>

\* the locals of a handler before it runs: pc is where the handler is,
\* bounding_box its filter, pos its broadcast receiver's cursor, sent the
\* indices into chan of the AIS data sent to its client, req the last inbound
\* text frame, reply the last control frame sent, lag_note the last Lagged(n)
LocalInit ==
  [pc |-> "init", bounding_box |-> None, pos |-> 0, sent |-> <<>>, req |-> None,
   reply |-> NoReply, lag_note |-> None]

\* a handler that has returned: its locals (filter, receiver) are dropped
Exited(how) == [LocalInit EXCEPT !.pc = how]

Attached == {"loop", "start_wait", "already_reply"}
Closed == {"no_sender", "confirm_failed", "send_failed", "client_close",
           "socket_error", "stream_end", "chan_closed"}
Live == {"connecting", "streaming"}

\* number of downstream connections holding a subscription
client_count == Cardinality({c \in Conns : conn[c].pc \in Attached})
spawned == Cardinality({t \in Tasks : upstream[t] # "none"})
upstream_live == \E t \in Tasks : upstream[t] \in Live

(***************************************************************************)
(* Datalink providers: configuration, receiver tasks and the buffer.       *)
(***************************************************************************)
\* capacity of a provider's message buffer (1000 in the code)
QueueCap == 2
\* lines the transports deliver in a behaviour
MaxLines == 3
\* provider calls (connect, disconnect, receive) in a behaviour
MaxCalls == 3
\* receiver tasks that can be spawned in a behaviour
MaxLinkTasks == 2

LinkTasks == 1..MaxLinkTasks
Providers == {"ais", "gps", "radar", "gpyes"}
\* providers whose connect builds its own runtime and blocks on it
OwnRuntime == {"ais", "gps"}

\* a parameter value is text that parses as a number ("n") or text that
\* does not ("x")
DataLinkConfig(ct, port, host, baud_rate, bind_addr, path, replay_speed) ==
  [connection_type |-> ct, port |-> port, host |-> host,
   baud_rate |-> baud_rate, bind_addr |-> bind_addr, path |-> path,
   replay_speed |-> replay_speed]

CfgTcp == DataLinkConfig(Some("tcp"), Some("n"), Some("x"), None, None, None, None)
CfgFile == DataLinkConfig(Some("file"), None, None, None, None, Some("x"), None)
CfgSerialNoBaud == DataLinkConfig(Some("serial"), Some("x"), None, None, None, None, None)
CfgNoType == DataLinkConfig(None, Some("n"), Some("x"), None, None, None, None)
CfgUnsupported == DataLinkConfig(Some("simulation"), Some("n"), Some("x"), None, None, None, None)
CfgTcpNoPort == DataLinkConfig(Some("tcp"), None, Some("x"), None, None, None, None)
CfgTcpBadPort == DataLinkConfig(Some("tcp"), Some("x"), Some("x"), None, None, None, None)
Configs == {CfgTcp, CfgSerialNoBaud, CfgNoType, CfgUnsupported, CfgTcpNoPort,
            CfgTcpBadPort}
\* configurations of a file replay
ReplayConfigs == {CfgFile, CfgNoType}

Ok(x) == <<"Ok", x>>
Err(e) == <<"Err", e>>
is_ok(r) == r[1] = "Ok"

\* str::parse::<u16 / u32 / f64>
parses(v) == v = Some("n")
\* .unwrap_or(default).parse(): an absent parameter takes a default that parses
parses_or_default(v) == v = None \/ parses(v)

SourceConfig(kind, cfg) == [kind |-> kind, parameters |-> cfg]

\* .unwrap_or(&"4800".to_string()) and the other defaults: the parameters
\* with the absent ones that have a default in that provider filled in
with_defaults(p, cfg) ==
  LET ct == cfg.connection_type IN
  [cfg EXCEPT
     !.baud_rate = IF ct = Some("serial") /\ @ = None /\ p \in {"ais", "gps"}
                   THEN Some("4800") ELSE @,
     !.bind_addr = IF ct = Some("udp") /\ @ = None /\ p # "gpyes"
                   THEN Some("0.0.0.0") ELSE @,
     !.replay_speed = IF ct = Some("file") /\ @ = None THEN Some("1.0") ELSE @]

\* a parser that accepts every configuration
parse_accepts_all(p, cfg) == Ok(SourceConfig("tcp", cfg))

\* parse_source_config of the four providers: they differ in which
\* parameters have defaults
parse_source_config(p, cfg) ==
  LET ct == cfg.connection_type
      good ==
        IF ct = None THEN FALSE
        ELSE IF ct[1] = "serial"
          THEN /\ cfg.port # None
               /\ IF p \in {"ais", "gps"} THEN parses_or_default(cfg.baud_rate)
                                          ELSE parses(cfg.baud_rate)
        ELSE IF ct[1] = "tcp"
          THEN cfg.host # None /\ parses(cfg.port)
        ELSE IF ct[1] = "udp"
          THEN /\ (p = "gpyes" => cfg.bind_addr # None)
               /\ parses(cfg.port)
        ELSE IF ct[1] = "file"
          THEN cfg.path # None /\ parses_or_default(cfg.replay_speed)
        ELSE FALSE
  IN IF good THEN Ok(SourceConfig(ct[1], with_defaults(p, cfg)))
     ELSE Err("InvalidConfig")

\* a receiver task that was never spawned: st is where the task is, kind the
\* transport it reads, n the lines it has read, shutdown the state of its
\* shutdown channel, aborted whether JoinHandle::abort was called on it, at
\* the await it is suspended in (the select! of its loop or the pacing sleep
\* of a file replay), signalled_in the await in which the shutdown signal
\* found it, outcome the read outcome that ended its loop and ret the value
\* the receiver function returned
NoTask == [st |-> "none", kind |-> "none", n |-> 0, shutdown |-> "open",
           aborted |-> FALSE, at |-> "select", signalled_in |-> "none",
           outcome |-> "none", ret |-> "none"]
\* a message: the n-th line read by receiver task t
DataMessage(t, n) == [task |-> t, n |-> n]
\* the caller is outside every provider call
Idle == [pc |-> "idle", awaited |-> None]
InCall(pc, h) == [pc |-> pc, awaited |-> h]
NoResult == [op |-> "none", value |-> Err("none")]
Result(op, r) == [op |-> op, value |-> r]

\* Provider::new()
LinkNew(p) ==
  /\ provider = p
  /\ status = "Disconnected"
  /\ config = None
  /\ source_config = None
  /\ message_queue = <<>>
  /\ receiver_handle = None
  /\ shutdown_tx = None
  /\ task = [t \in LinkTasks |-> NoTask]
  /\ call = Idle
  /\ result = NoResult
  /\ received = <<>>
  /\ lines_read = 0
  /\ calls = 0

\* no sentence has been handed to a parser
ParseNew ==
  /\ sentence = <<>>
  /\ parser = "none"
  /\ parsed = None
\* no ship type mapped yet
UnitNew ==
  /\ ship_type = None
  /\ ship_type_description = None
  /\ known_devices = <<>>
  /\ handled = 0

SharedInit ==
  /\ ais_sender = TRUE
  /\ ais_stream_started = FALSE
  /\ started_lock = None
  /\ chan = <<>>
  /\ upstream = [t \in Tasks |-> "none"]
  /\ frames = 0
  /\ conn = [c \in Conns |-> LocalInit]
  /\ inbound = 0

Init ==
  /\ SharedInit
  /\ bb_data = parse_ais_message(UpstreamValue(None, None))
  /\ bb_box = Box1
  /\ bb_result = None
  /\ LinkNew("ais")
  /\ ParseNew
  /\ UnitNew

(***************************************************************************)
(* handle_websocket: one downstream connection.                            *)
(***************************************************************************)
\* socket.send of a control frame: delivered, or the send fails and the loop breaks
send_control(l, r, ok) ==
  IF ok THEN [l EXCEPT !.pc = "loop", !.reply = r] ELSE Exited("send_failed")

\* subscribe under the ais_sender lock, then the connection confirmation
handle_websocket(c) ==
  /\ conn[c].pc = "init"
  /\ \E ok \in BOOLEAN :
       conn' = [conn EXCEPT ![c] =
                  IF ~ais_sender THEN Exited("no_sender")
                  ELSE IF ok THEN [@ EXCEPT !.pc = "loop", !.pos = Len(chan),
                                            !.reply = ConnectedReply]
                  ELSE Exited("confirm_failed")]
  /\ UNCHANGED shared_vars
  /\ UNCHANGED <<inbound, bb_vars, link_vars, parse_vars, unit_vars>>

\* the assignment to the local bounding_box, made on every connection's box
set_bounding_box_shared(conns, c, b) ==
  [d \in Conns |-> IF conns[d].pc \in Attached
                   THEN [conns[d] EXCEPT !.bounding_box = b] ELSE conns[d]]

\* the assignment to the handler's local bounding_box
set_bounding_box(conns, c, b) == [conns EXCEPT ![c].bounding_box = b]

\* Some(Ok(WsMessage::Text(text))) in the select loop
recv_text(c, text) ==
  /\ conn[c].pc = "loop"
  /\ inbound < MaxInbound
  /\ inbound' = inbound + 1
  /\ LET arm == dispatch(text)
         got == [conn EXCEPT ![c].req = Some(text)]
     IN
     CASE arm = "set" ->
            \E ok \in BOOLEAN :
              LET boxed == set_bounding_box(got, c, text.bounding_box) IN
              conn' = [boxed EXCEPT ![c] =
                         send_control(@, Reply("bounding_box_set", text.bounding_box), ok)]
       [] arm = "clear" ->
            \E ok \in BOOLEAN :
              LET boxed == set_bounding_box(got, c, None) IN
              conn' = [boxed EXCEPT ![c] =
                         send_control(@, Reply("bounding_box_cleared", None), ok)]
       [] arm = "start" ->
            conn' = [got EXCEPT ![c].pc = "start_wait"]
       [] OTHER ->
            \E ok \in BOOLEAN :
              conn' = [got EXCEPT ![c] = send_control(@, EchoReply(text), ok)]
  /\ UNCHANGED shared_vars
  /\ UNCHANGED <<bb_vars, link_vars, parse_vars, unit_vars>>

\* *stream_started = true, as a write that leaves the flag as it was
record_started_forgets(flag) == flag

\* *stream_started = true
record_started(flag) == TRUE

\* the start_ais_stream arm once the ais_stream_started lock is acquired
start_ais_stream(c) ==
  /\ conn[c].pc = "start_wait"
  /\ started_lock = None
  /\ IF ~ais_stream_started
     THEN /\ spawned < MaxTasks
          /\ ais_stream_started' = record_started(ais_stream_started)
          /\ upstream' = [upstream EXCEPT ![spawned + 1] = "connecting"]
          /\ \E ok \in BOOLEAN :
               conn' = [conn EXCEPT ![c] =
                          send_control(@, Reply("ais_stream_started", None), ok)]
          /\ UNCHANGED started_lock
     ELSE /\ started_lock' = Some(c)
          /\ conn' = [conn EXCEPT ![c].pc = "already_reply"]
          /\ UNCHANGED <<ais_stream_started, upstream>>
  /\ UNCHANGED <<ais_sender, chan, frames>>
  /\ UNCHANGED <<inbound, bb_vars, link_vars, parse_vars, unit_vars>>

\* the ais_stream_already_started confirmation, sent with the guard still held
send_already_started(c) ==
  /\ conn[c].pc = "already_reply"
  /\ started_lock = Some(c)
  /\ \E ok \in BOOLEAN :
       conn' = [conn EXCEPT ![c] =
                  send_control(@, Reply("ais_stream_already_started", None), ok)]
  /\ started_lock' = None
  /\ UNCHANGED <<ais_sender, ais_stream_started, chan, upstream, frames>>
  /\ UNCHANGED <<inbound, bb_vars, link_vars, parse_vars, unit_vars>>

\* a socket failure that ends every attached handler
recv_end_all(c) ==
  /\ conn[c].pc = "loop"
  /\ conn' = [d \in Conns |-> IF conn[d].pc \in Attached
                               THEN Exited("socket_error") ELSE conn[d]]
  /\ started_lock' = None
  /\ UNCHANGED <<ais_sender, ais_stream_started, chan, upstream, frames>>
  /\ UNCHANGED <<inbound, bb_vars, link_vars, parse_vars, unit_vars>>

\* Close frame, socket error or end of the client stream: break
recv_end(c) ==
  /\ conn[c].pc = "loop"
  /\ \E how \in {"client_close", "socket_error", "stream_end"} :
       conn' = [conn EXCEPT ![c] = Exited(how)]
  /\ UNCHANGED shared_vars
  /\ UNCHANGED <<inbound, bb_vars, link_vars, parse_vars, unit_vars>>

\* any other inbound frame (Binary, Ping, Pong): ignored
recv_other(c) ==
  /\ conn[c].pc = "loop"
  /\ inbound < MaxInbound
  /\ inbound' = inbound + 1
  /\ UNCHANGED conn
  /\ UNCHANGED shared_vars
  /\ UNCHANGED <<bb_vars, link_vars, parse_vars, unit_vars>>

\* number of values of the channel already overwritten
overwritten == IF Len(chan) > ChannelCap THEN Len(chan) - ChannelCap ELSE 0

\* a receiver cursor that stays on the value it has just returned
advance_stays(pos) == pos

\* the receiver's cursor after recv() has returned the value at pos + 1
advance(pos) == pos + 1

\* receiver.recv() in the select loop: Lagged(n), Ok(data) or Closed
recv_broadcast(c) ==
  /\ conn[c].pc = "loop"
  /\ LET l == conn[c] IN
     IF l.pos < overwritten
     THEN conn' = [conn EXCEPT ![c].lag_note =
                     Some([n |-> overwritten - l.pos, resume |-> overwritten]),
                   ![c].pos = overwritten]
     ELSE IF l.pos < Len(chan)
     THEN IF should_send(chan[l.pos + 1], l.bounding_box)
          THEN \E ok \in BOOLEAN :
                 conn' = [conn EXCEPT ![c] =
                            IF ok THEN [@ EXCEPT !.pos = advance(l.pos),
                                                 !.sent = Append(@, l.pos + 1)]
                            ELSE Exited("send_failed")]
          ELSE conn' = [conn EXCEPT ![c].pos = advance(l.pos)]
     ELSE /\ ~ais_sender
          /\ conn' = [conn EXCEPT ![c] = Exited("chan_closed")]
  /\ UNCHANGED shared_vars
  /\ UNCHANGED <<inbound, bb_vars, link_vars, parse_vars, unit_vars>>

(***************************************************************************)
(* connect_to_ais_stream_with_broadcast: the upstream task.                *)
(***************************************************************************)
\* connect_async and the subscription message: both succeed, or the task
\* returns the error
upstream_connect(t) ==
  /\ upstream[t] = "connecting"
  /\ \E ok \in BOOLEAN :
       upstream' = [upstream EXCEPT ![t] = IF ok THEN "streaming" ELSE "failed"]
  /\ UNCHANGED <<ais_sender, ais_stream_started, started_lock, chan, frames, conn>>
  /\ UNCHANGED <<inbound, bb_vars, link_vars, parse_vars, unit_vars>>

\* a broadcast send that waits for room, like a bounded queue
send_waits_for_room(ch, conns) ==
  \A c \in Conns : conns[c].pc \in Attached => Len(ch) - conns[c].pos < ChannelCap

\* broadcaster.send never waits for a receiver
send_ready(ch, conns) == TRUE

\* one Text or Binary frame of the upstream stream
upstream_frame(t, v) ==
  /\ upstream[t] = "streaming"
  /\ frames < MaxMsgs
  /\ frames' = frames + 1
  /\ IF v.json /\ ais_sender
     THEN /\ send_ready(chan, conn)
          /\ chan' = Append(chan, parse_ais_message(v))
     ELSE UNCHANGED chan
  /\ UNCHANGED <<ais_sender, ais_stream_started, started_lock, upstream, conn>>
  /\ UNCHANGED <<inbound, bb_vars, link_vars, parse_vars, unit_vars>>

\* the upstream stream yields an error (the task returns it) or ends
upstream_end(t) ==
  /\ upstream[t] = "streaming"
  /\ \E how \in {"failed", "closed"} :
       upstream' = [upstream EXCEPT ![t] = how]
  /\ UNCHANGED <<ais_sender, ais_stream_started, started_lock, chan, frames, conn>>
  /\ UNCHANGED <<inbound, bb_vars, link_vars, parse_vars, unit_vars>>

Next ==
  \/ \E c \in Conns : handle_websocket(c)
  \/ \E c \in Conns : \E text \in ClientTexts : recv_text(c, text)
  \/ \E c \in Conns : start_ais_stream(c)
  \/ \E c \in Conns : send_already_started(c)
  \/ \E c \in Conns : recv_end(c)
  \/ \E c \in Conns : recv_other(c)
  \/ \E c \in Conns : recv_broadcast(c)
  \/ \E t \in Tasks : upstream_connect(t)
  \/ \E t \in Tasks : \E v \in UpstreamTexts : upstream_frame(t, v)
  \/ \E t \in Tasks : upstream_end(t)

Spec == Init /\ [][Next]_vars

(***************************************************************************)
(* The box test on its own: inputs drawn from a grid, one application.     *)
(***************************************************************************)
Coords == 0..MaxCoord
OptCoords == {None} \cup { Some(x) : x \in Coords }

InitBox ==
  /\ SharedInit
  /\ bb_data \in { parse_ais_message(UpstreamValue(la, lo)) : la \in OptCoords, lo \in OptCoords }
  /\ bb_box \in { WebSocketBoundingBox(a, b, c, d) : a \in Coords, b \in Coords,
                                                     c \in Coords, d \in Coords }
  /\ bb_result = None
  /\ LinkNew("ais")
  /\ ParseNew
  /\ UnitNew

check_box ==
  /\ bb_result = None
  /\ bb_result' = Some(is_within_bounding_box(bb_data, bb_box))
  /\ UNCHANGED <<bb_data, bb_box>>
  /\ UNCHANGED shared_vars
  /\ UNCHANGED <<conn, inbound, link_vars, parse_vars, unit_vars>>

NextBox == check_box

SpecBox == InitBox /\ [][NextBox]_vars

(***************************************************************************)
(* Datalink providers: connect, disconnect, receive and the receiver task. *)
(***************************************************************************)
server_vars == <<shared_vars, conn, inbound, bb_vars>>

\* the task slot the next tokio::spawn takes
next_task == CHOOSE t \in LinkTasks :
               /\ task[t].st = "none"
               /\ \A u \in LinkTasks : u < t => task[u].st # "none"
spawns(p) == p # "gpyes"

\* connect up to the parsing of the configuration
connect(cfg) ==
  /\ call = Idle
  /\ calls < MaxCalls
  /\ spawns(provider) => \E t \in LinkTasks : task[t].st = "none"
  /\ calls' = calls + 1
  /\ LET r == parse_source_config(provider, cfg) IN
     IF provider \in OwnRuntime
     THEN /\ status' = "Connecting"
          /\ config' = Some(cfg)
          /\ IF is_ok(r)
             THEN /\ source_config' = Some(r[2])
                  /\ call' = InCall("connect_start", None)
                  /\ result' = NoResult
             ELSE /\ result' = Result("connect", r)
                  /\ UNCHANGED <<source_config, call>>
     ELSE IF is_ok(r)
     THEN /\ status' = "Connecting"
          /\ config' = IF provider = "radar" THEN Some(r[2]) ELSE config
          /\ call' = InCall("connect_start", None)
          /\ result' = NoResult
          /\ UNCHANGED source_config
     ELSE /\ result' = Result("connect", r)
          /\ UNCHANGED <<status, config, source_config, call>>
  /\ UNCHANGED <<provider, message_queue, receiver_handle, shutdown_tx, task,
                 received, lines_read>>
  /\ UNCHANGED <<server_vars, parse_vars, unit_vars>>

\* the sender stored before is dropped when shutdown_tx is overwritten
drop_sender(tasks, old) ==
  IF old # None /\ tasks[old[1]].shutdown = "open"
  THEN [tasks EXCEPT ![old[1]].shutdown = "dropped"]
  ELSE tasks

\* the transport of the receiver spawned for a source configuration
receiver_kind(sc) == sc.kind

\* start_receiver: spawn the receiver of the configured kind, record its
\* handle and the shutdown sender
start_receiver ==
  /\ call.pc = "connect_start"
  /\ IF provider = "gpyes"
     THEN /\ status' = "Connected"
          /\ call' = Idle
          /\ result' = Result("connect", Ok("unit"))
          /\ UNCHANGED <<task, receiver_handle, shutdown_tx>>
     ELSE LET t == next_task
              sc == IF provider = "radar" THEN config[1] ELSE source_config[1]
          IN
          /\ task' = [drop_sender(task, shutdown_tx) EXCEPT
                        ![t] = [NoTask EXCEPT !.st = "running",
                                              !.kind = receiver_kind(sc)]]
          /\ receiver_handle' = Some(t)
          /\ shutdown_tx' = Some(t)
          /\ IF provider = "radar"
             THEN /\ status' = "Connected"
                  /\ call' = Idle
                  /\ result' = Result("connect", Ok("unit"))
             ELSE /\ call' = InCall("in_runtime", None)
                  /\ UNCHANGED <<status, result>>
  /\ UNCHANGED <<provider, config, source_config, message_queue, received,
                 lines_read, calls>>
  /\ UNCHANGED <<server_vars, parse_vars, unit_vars>>

\* what the drop of connect's runtime does to the task spawned on it
runtime_drop(tk) ==
  IF tk.st \in {"running", "returned"}
  THEN [tk EXCEPT !.st = "cancelled", !.outcome = "none", !.ret = "none"]
  ELSE tk

\* ais, gps: block_on has returned; the status is set and connect returns,
\* which drops the runtime the receiver was spawned on
connect_return ==
  /\ call.pc = "in_runtime"
  /\ status' = "Connected"
  /\ task' = [task EXCEPT ![receiver_handle[1]] = runtime_drop(@)]
  /\ call' = Idle
  /\ result' = Result("connect", Ok("unit"))
  /\ UNCHANGED <<provider, config, source_config, message_queue,
                 receiver_handle, shutdown_tx, received, lines_read, calls>>
  /\ UNCHANGED <<server_vars, parse_vars, unit_vars>>

\* shutdown_tx.take() and send / try_send: the signal reaches a receiver
\* that is still there
signal(tasks, tx) ==
  IF tx # None /\ tasks[tx[1]].st = "running"
  THEN [tasks EXCEPT ![tx[1]].shutdown = "signalled",
                     ![tx[1]].signalled_in = tasks[tx[1]].at]
  ELSE tasks

\* JoinHandle::abort: the task is cancelled the next time it yields
abort(tasks, h) ==
  IF h # None /\ tasks[h[1]].st = "running"
  THEN [tasks EXCEPT ![h[1]].aborted = TRUE]
  ELSE tasks

\* disconnect up to the signal: ais and gps send it and then await the
\* handle; radar try_sends it and goes on without waiting; gpyes has no task
disconnect ==
  /\ call = Idle
  /\ calls < MaxCalls
  /\ calls' = calls + 1
  /\ shutdown_tx' = None
  /\ IF provider \in OwnRuntime
     THEN /\ task' = signal(task, shutdown_tx)
          /\ receiver_handle' = None
          /\ call' = InCall("stopping", receiver_handle)
          /\ result' = NoResult
          /\ UNCHANGED <<status, config, message_queue>>
     ELSE IF provider = "radar"
     THEN /\ task' = signal(task, shutdown_tx)
          /\ call' = InCall("aborting", None)
          /\ result' = NoResult
          /\ UNCHANGED <<receiver_handle, status, config, message_queue>>
     ELSE /\ status' = "Disconnected"
          /\ result' = Result("disconnect", Ok("unit"))
          /\ UNCHANGED <<task, receiver_handle, config, message_queue, call>>
  /\ UNCHANGED <<provider, source_config, received, lines_read>>
  /\ UNCHANGED <<server_vars, parse_vars, unit_vars>>

\* ais, gps: handle.await has finished; the state is reset and disconnect
\* returns
disconnect_return ==
  /\ call.pc = "stopping"
  /\ call.awaited # None => task[call.awaited[1]].st \notin {"running", "returned"}
  /\ status' = "Disconnected"
  /\ config' = None
  /\ source_config' = None
  /\ call' = Idle
  /\ result' = Result("disconnect", Ok("unit"))
  /\ UNCHANGED <<provider, message_queue, receiver_handle, shutdown_tx, task,
                 received, lines_read, calls>>
  /\ UNCHANGED <<server_vars, parse_vars, unit_vars>>

\* radar: the handle is aborted, the state reset and the buffer cleared;
\* disconnect returns without waiting for the task
disconnect_abort ==
  /\ call.pc = "aborting"
  /\ task' = abort(task, receiver_handle)
  /\ receiver_handle' = None
  /\ status' = "Disconnected"
  /\ config' = None
  /\ message_queue' = <<>>
  /\ call' = Idle
  /\ result' = Result("disconnect", Ok("unit"))
  /\ UNCHANGED <<provider, source_config, shutdown_tx, received, lines_read,
                 calls>>
  /\ UNCHANGED <<server_vars, parse_vars, unit_vars>>

\* pop_back instead of pop_front
pop_newest(q) == <<q[Len(q)]>>
\* what receive_message takes from a buffer that is not empty
pop_front(q) == <<Head(q)>>
rest(q, taken) == IF taken = <<Head(q)>> THEN Tail(q) ELSE SubSeq(q, 1, Len(q) - 1)

\* receive_message: the oldest message of the buffer, or None
receive_message ==
  /\ call = Idle
  /\ calls < MaxCalls
  /\ calls' = calls + 1
  /\ IF message_queue = <<>>
     THEN /\ result' = Result("receive_message", Ok(None))
          /\ UNCHANGED <<message_queue, received>>
     ELSE LET m == pop_front(message_queue) IN
          /\ result' = Result("receive_message", Ok(m))
          /\ message_queue' = rest(message_queue, m)
          /\ received' = received \o m
  /\ UNCHANGED <<provider, status, config, source_config, receiver_handle,
                 shutdown_tx, task, call, lines_read>>
  /\ UNCHANGED <<server_vars, parse_vars, unit_vars>>

\* receive_all_messages is entered: the loop over receive_message starts
receive_all_messages ==
  /\ call = Idle
  /\ calls < MaxCalls
  /\ calls' = calls + 1
  /\ call' = InCall("draining", None)
  /\ result' = NoResult
  /\ UNCHANGED <<provider, status, config, source_config, message_queue,
                 receiver_handle, shutdown_tx, task, received, lines_read>>
  /\ UNCHANGED <<server_vars, parse_vars, unit_vars>>

\* one receive_message of the loop: a message is collected, or None ends
\* the loop and the collected messages are returned
receive_all_step ==
  /\ call.pc = "draining"
  /\ IF message_queue = <<>>
     THEN /\ call' = Idle
          /\ result' = Result("receive_all_messages", Ok("messages"))
          /\ UNCHANGED <<message_queue, received>>
     ELSE LET m == pop_front(message_queue) IN
          /\ message_queue' = rest(message_queue, m)
          /\ received' = received \o m
          /\ UNCHANGED <<call, result>>
  /\ UNCHANGED <<provider, status, config, source_config, receiver_handle,
                 shutdown_tx, task, lines_read, calls>>
  /\ UNCHANGED <<server_vars, parse_vars, unit_vars>>

\* push_back, and in ais and gps pop_front when the length exceeds the
\* capacity; radar pushes without a limit
push(p, q, m) ==
  LET q2 == Append(q, m) IN
  IF p # "radar" /\ Len(q2) > QueueCap THEN Tail(q2) ELSE q2

\* a receiver whose loop ends at a line the parser rejects
next_read_strict(tk, valid) ==
  IF valid
  THEN [tk EXCEPT !.n = @ + 1, !.at = IF tk.kind = "file" THEN "delay" ELSE "select"]
  ELSE [tk EXCEPT !.n = @ + 1, !.st = "returned", !.outcome = "fatal", !.ret = "Ok"]

\* the receiver after a line, whatever the parser said: the line buffer is
\* cleared and the loop goes on; a file replay first sleeps its pacing delay
next_read(tk, valid) ==
  [tk EXCEPT !.n = @ + 1, !.at = IF tk.kind = "file" THEN "delay" ELSE "select"]

\* one line read by a receiver: parsed, and pushed if the parser accepts it
receiver_read(t, valid) ==
  /\ task[t].st = "running"
  /\ task[t].at = "select"
  /\ lines_read < MaxLines
  /\ lines_read' = lines_read + 1
  /\ task' = [task EXCEPT ![t] = next_read(@, valid)]
  /\ message_queue' = IF valid
                      THEN push(provider, message_queue, DataMessage(t, task[t].n + 1))
                      ELSE message_queue
  /\ UNCHANGED <<provider, status, config, source_config, receiver_handle,
                 shutdown_tx, call, result, received, calls>>
  /\ UNCHANGED <<server_vars, parse_vars, unit_vars>>

\* file replay: the pacing sleep after a line is over and the loop comes
\* back to its select!
receiver_wake(t) ==
  /\ task[t].st = "running"
  /\ task[t].at = "delay"
  /\ task' = [task EXCEPT ![t].at = "select"]
  /\ UNCHANGED <<provider, status, config, source_config, message_queue,
                 receiver_handle, shutdown_tx, call, result, received,
                 lines_read, calls>>
  /\ UNCHANGED <<server_vars, parse_vars, unit_vars>>

\* what ends a receiver other than shutdown: the transport cannot be opened,
\* a read of zero bytes / end of file, a read error that a retry would get
\* over (timeout, interrupted call), any other read error
EndOutcomes == {"open_failed", "closed", "recoverable", "fatal"}

\* the receiver function's result: only a failed open is returned as an
\* error (through `?`); every read outcome breaks the loop, after which the
\* function returns Ok(())
receiver_result(outcome) == IF outcome = "open_failed" THEN "Err" ELSE "Ok"

\* a receiver whose end sets the provider's status to an error
receiver_end_reports(t) ==
  /\ task[t].st = "running"
  /\ task[t].at = "select"
  /\ \E outcome \in EndOutcomes :
       /\ outcome = "open_failed" => task[t].n = 0
       /\ task' = [task EXCEPT ![t].st = "returned",
                               ![t].outcome = outcome,
                               ![t].ret = receiver_result(outcome)]
  /\ status' = "Error"
  /\ UNCHANGED <<provider, config, source_config, message_queue,
                 receiver_handle, shutdown_tx, call, result, received,
                 lines_read, calls>>
  /\ UNCHANGED <<server_vars, parse_vars, unit_vars>>

\* the transport cannot be opened, reaches its end or fails: the receiver
\* function returns to the spawned task; nothing of the provider is touched
receiver_end(t) ==
  /\ task[t].st = "running"
  /\ task[t].at = "select"
  /\ \E outcome \in EndOutcomes :
       /\ outcome = "open_failed" => task[t].n = 0
       /\ task' = [task EXCEPT ![t].st = "returned",
                               ![t].outcome = outcome,
                               ![t].ret = receiver_result(outcome)]
  /\ UNCHANGED <<provider, status, config, source_config, message_queue,
                 receiver_handle, shutdown_tx, call, result, received,
                 lines_read, calls>>
  /\ UNCHANGED <<server_vars, parse_vars, unit_vars>>

\* shutdown_rx.recv() yields the signal, or None once the sender is gone
receiver_shutdown(t) ==
  /\ task[t].st = "running"
  /\ task[t].at = "select"
  /\ task[t].shutdown \in {"signalled", "dropped"}
  /\ task' = [task EXCEPT ![t].st = "returned", ![t].outcome = "shutdown",
                          ![t].ret = "Ok"]
  /\ UNCHANGED <<provider, status, config, source_config, message_queue,
                 receiver_handle, shutdown_tx, call, result, received,
                 lines_read, calls>>
  /\ UNCHANGED <<server_vars, parse_vars, unit_vars>>

\* the spawned task after its receiver has returned: an Err is logged, the
\* result is dropped and the task finishes with ()
task_finish(t) ==
  /\ task[t].st = "returned"
  /\ task' = [task EXCEPT ![t].st = "finished", ![t].outcome = "none",
                          ![t].ret = "none"]
  /\ UNCHANGED <<provider, status, config, source_config, message_queue,
                 receiver_handle, shutdown_tx, call, result, received,
                 lines_read, calls>>
  /\ UNCHANGED <<server_vars, parse_vars, unit_vars>>

\* an aborted task is dropped when its current poll yields
receiver_cancel(t) ==
  /\ task[t].st = "running"
  /\ task[t].aborted
  /\ task' = [task EXCEPT ![t].st = "cancelled"]
  /\ UNCHANGED <<provider, status, config, source_config, message_queue,
                 receiver_handle, shutdown_tx, call, result, received,
                 lines_read, calls>>
  /\ UNCHANGED <<server_vars, parse_vars, unit_vars>>

\* messages a caller hands to send_message
Outgoing == {DataMessage(0, 1), DataMessage(0, 2)}

\* a transmitter that puts the message into the provider's own buffer
send_message_loopback(message) ==
  /\ call = Idle
  /\ calls < MaxCalls
  /\ calls' = calls + 1
  /\ message_queue' = Append(message_queue, message)
  /\ result' = Result("send_message", Ok("unit"))
  /\ UNCHANGED <<provider, status, config, source_config, receiver_handle,
                 shutdown_tx, task, call, received, lines_read>>
  /\ UNCHANGED <<server_vars, parse_vars, unit_vars>>

\* send_message: the message is ignored and the call fails
send_message(message) ==
  /\ call = Idle
  /\ calls < MaxCalls
  /\ calls' = calls + 1
  /\ result' = Result("send_message", Err("TransportError"))
  /\ UNCHANGED <<provider, status, config, source_config, message_queue,
                 receiver_handle, shutdown_tx, task, call, received,
                 lines_read>>
  /\ UNCHANGED <<server_vars, parse_vars, unit_vars>>

InitLink ==
  /\ SharedInit
  /\ bb_data = parse_ais_message(UpstreamValue(None, None))
  /\ bb_box = Box1
  /\ bb_result = None
  /\ \E p \in Providers : LinkNew(p)
  /\ ParseNew
  /\ UnitNew

NextLink ==
  \/ \E cfg \in Configs : connect(cfg)
  \/ start_receiver
  \/ connect_return
  \/ disconnect
  \/ disconnect_return
  \/ disconnect_abort
  \/ receive_message
  \/ receive_all_messages
  \/ receive_all_step
  \/ \E message \in Outgoing : send_message(message)
  \/ \E t \in LinkTasks : \E valid \in BOOLEAN : receiver_read(t, valid)
  \/ \E t \in LinkTasks : receiver_end(t)
  \/ \E t \in LinkTasks : receiver_shutdown(t)
  \/ \E t \in LinkTasks : task_finish(t)
  \/ \E t \in LinkTasks : receiver_cancel(t)

SpecLink == InitLink /\ [][NextLink]_vars

\* the providers replaying a file: the receiver sleeps between lines
NextReplay ==
  \/ \E cfg \in ReplayConfigs : connect(cfg)
  \/ start_receiver
  \/ connect_return
  \/ disconnect
  \/ disconnect_return
  \/ disconnect_abort
  \/ receive_message
  \/ \E t \in LinkTasks : \E valid \in BOOLEAN : receiver_read(t, valid)
  \/ \E t \in LinkTasks : receiver_wake(t)
  \/ \E t \in LinkTasks : receiver_end(t)
  \/ \E t \in LinkTasks : receiver_shutdown(t)
  \/ \E t \in LinkTasks : task_finish(t)
  \/ \E t \in LinkTasks : receiver_cancel(t)

SpecReplay == InitLink /\ [][NextReplay]_vars

(***************************************************************************)
(* Sentence parsers.  A line is a sequence of tokens: the characters the   *)
(* parsers look for ("$", "!", ",", "*") and words, which hold none of     *)
(* them.                                                                   *)
(***************************************************************************)
\* comma-separated fields after the first one in the longest line
MaxFields == 14

\* a prefix test that every line passes
starts_with_any(s, c) == TRUE
\* str::starts_with(char)
starts_with(s, c) == s # <<>> /\ s[1] = c
\* str::contains(char)
contains_char(s, c) == \E i \in 1..Len(s) : s[i] = c
\* str::is_empty
is_empty(s) == s = <<>>

\* str::split(','): the parts between the commas; a line without a comma,
\* the empty line too, is one part
RECURSIVE split(_)
split(s) ==
  IF ~contains_char(s, ",") THEN <<s>>
  ELSE LET i == CHOOSE i \in 1..Len(s) :
                  s[i] = "," /\ \A j \in 1..(i - 1) : s[j] # ","
       IN <<SubSeq(s, 1, i - 1)>> \o split(SubSeq(s, i + 1, Len(s)))

\* parts[i] of the source, which counts from 0
field(parts, i) == parts[i + 1]

\* the part as it is, with a checksum it may end in
keep_star(part) == part
\* part.split('*').next(): what stands before the first '*'
before_star(part) ==
  IF ~contains_char(part, "*") THEN part
  ELSE SubSeq(part, 1, (CHOOSE i \in 1..Len(part) :
                          part[i] = "*" /\ \A j \in 1..(i - 1) : part[j] # "*") - 1)

\* the words of the lines that hold a keyword as a substring
WordsWith(keyword) ==
  IF keyword = "AIVDM" THEN {"AIVDM", "XAIVDMX"}
  ELSE IF keyword = "RADTG" THEN {"RADTG", "RADTGX"}
  ELSE {keyword}
\* the part is exactly "!KEYWORD"
is_keyword(part, keyword) == part = <<"!", keyword>>
\* str::contains(&str) on a part
contains(part, keyword) == \E i \in 1..Len(part) : part[i] \in WordsWith(keyword)
\* str::starts_with("$KEYWORD") on a line
starts_with_str(s, keyword) ==
  Len(s) >= 2 /\ s[1] = "$" /\ s[2] \in WordsWith(keyword)

\* the words that parse as f64 / f32, with their value in thousandths
Thousandths ==
  [w \in {"4807.038", "01131.000", "1", "08", "0.9", "545.4", "46.9", "022.4",
          "084.4", "003.1", "230394", "123519", "123.45", "67.89", "12.3",
          "045", "15.2", "0", "0030.500", "12.0", "-15"} |->
     CASE w = "4807.038" -> 4807038 [] w = "01131.000" -> 1131000
       [] w = "1" -> 1000 [] w = "08" -> 8000 [] w = "0.9" -> 900
       [] w = "545.4" -> 545400 [] w = "46.9" -> 46900 [] w = "022.4" -> 22400
       [] w = "084.4" -> 84400 [] w = "003.1" -> 3100
       [] w = "230394" -> 230394000 [] w = "123519" -> 123519000
       [] w = "123.45" -> 123450 [] w = "67.89" -> 67890 [] w = "12.3" -> 12300
       [] w = "045" -> 45000 [] w = "15.2" -> 15200 [] w = "0" -> 0
       [] w = "0030.500" -> 30500 [] w = "12.0" -> 12000
       [] w = "-15" -> 0 - 15000]

\* str::parse::<f64>(): a part that is one numeric word
parse_f64(part) ==
  IF Len(part) = 1 /\ part[1] \in DOMAIN Thousandths
  THEN Some(Thousandths[part[1]]) ELSE None
\* str::parse::<u8>() and ::<i8>(): a part that is a whole number below 128
parse_u8(part) ==
  IF Len(part) = 1 /\ part[1] \in {"1", "08", "045", "0"}
  THEN Some(Thousandths[part[1]] \div 1000) ELSE None
\* str::parse::<i8>(): a whole number from -128 to 127
parse_i8(part) ==
  IF part = <<"-15">> THEN Some(0 - 15) ELSE parse_u8(part)
\* f32::to_string: the shortest text of the value
to_string(x) ==
  CASE x = 123450 -> <<"123.45">> [] x = 67890 -> <<"67.89">>
    [] x = 12300 -> <<"12.3">> [] x = 45000 -> <<"45">>
    [] x = 15200 -> <<"15.2">> [] x = 1000 -> <<"1">> [] x = 8000 -> <<"8">>
    [] x = 0 -> <<"0">> [] x = 12000 -> <<"12">>
    [] x = 0 - 15000 -> <<"-15">> [] OTHER -> <<"number">>

\* the first parts of the lines: sentence identifiers with and without
\* their prefix, unknown ones, plain text and nothing
Heads ==
  { <<>>, <<"text">>, <<"GPRMC">>, <<"AIVDM">>,
    <<"$", "GPGGA">>, <<"$", "GNGGA">>, <<"$", "GPRMC">>, <<"$", "GNRMC">>,
    <<"$", "GPGLL">>, <<"$", "GPVTG">>, <<"$", "GPXXX">>,
    <<"!", "AIVDM">>, <<"$", "AIVDO">>, <<"!", "XAIVDMX">>, <<"!", "BSVDM">>,
    <<"$", "RADTG">>, <<"$", "RADST">>, <<"$", "RADTGX">>,
    <<"$", "RADSC">>, <<"$", "RADCF">> }

\* a coordinate field: DDMM.mmm, empty, or text that is no number
RawCoords == {<<"4807.038">>, <<"0030.500">>, <<>>, <<"abc">>}

\* the fields of a position fix (GGA), of a course/speed sentence (RMC), of
\* an identification sentence and of a radar target, padded to MaxFields
FixFields(lat, ns, ew) ==
  <<<<"123519">>, lat, <<ns>>, <<"01131.000">>, <<ew>>, <<"1">>, <<"08">>,
    <<"0.9">>, <<"545.4">>, <<"M">>, <<"46.9">>, <<"M">>, <<>>, <<>>>>
RmcFields(flag, lat, ns, ew) ==
  <<<<"123519">>, flag, lat, <<ns>>, <<"01131.000">>, <<ew>>, <<"022.4">>,
    <<"084.4">>, <<"230394">>, <<"003.1">>, <<"W">>, <<>>, <<>>, <<>>>>
AisFields ==
  <<<<"1">>, <<"1">>, <<>>, <<"A">>, <<"payload">>, <<"0">>, <<>>, <<>>,
    <<>>, <<>>, <<>>, <<>>, <<>>, <<>>>>
RadarFields ==
  <<<<"123.45">>, <<"67.89">>, <<"12.3">>, <<"045">>, <<"15.2">>, <<>>, <<>>,
    <<>>, <<>>, <<>>, <<>>, <<>>, <<>>, <<>>>>
\* the fields of a radar scan and of a radar configuration sentence
RadarSettings ==
  { <<<<"123.45">>, <<"12.0">>, <<"AUTO">>, <<"-15">>, <<"OFF">>>>,
    <<<<"12.0">>, <<"AUTO">>, <<"-15">>, <<"OFF">>>> }
Flags == {<<"A">>, <<"V">>, <<>>}
Bodies ==
  { FixFields(lat, ns, ew) : lat \in RawCoords, ns \in {"N", "S"}, ew \in {"E", "W"} }
  \cup { RmcFields(flag, lat, ns, ew) :
           flag \in Flags, lat \in {<<"4807.038">>, <<>>}, ns \in {"N", "S"},
           ew \in {"E", "W"} }
  \cup {AisFields, RadarFields} \cup RadarSettings

\* the parts joined by commas
RECURSIVE join(_)
join(parts) ==
  IF Len(parts) = 1 THEN parts[1]
  ELSE parts[1] \o <<",">> \o join(Tail(parts))

\* the lines handed to the parsers: a head, the first n fields of a body
\* (any longer body continues with empty fields), and a checksum or none
pad(body, n) == [i \in 1..n |-> IF i <= Len(body) THEN body[i] ELSE <<>>]
Line(head, body, n, checksum) ==
  join(<<head>> \o pad(body, n)) \o (IF checksum THEN <<"*", "47">> ELSE <<>>)
Sentences ==
  { Line(head, body, n, checksum) :
      head \in Heads, body \in Bodies, n \in 0..MaxFields, checksum \in BOOLEAN }

\* DataMessage::new, with_data and with_signal_quality
DataMessage_new(message_type, source_id, payload) ==
  [message_type |-> message_type, source_id |-> source_id,
   payload |-> payload, data |-> <<>>, signal_quality |-> None]
with_data(message, key, value) ==
  [message EXCEPT !.data =
     [k \in DOMAIN @ \cup {key} |-> IF k = key THEN value ELSE @[k]]]
with_signal_quality(message, quality) ==
  [message EXCEPT !.signal_quality = Some(IF quality < 100 THEN quality ELSE 100)]
\* SystemTime::now() as seconds since the epoch
Now == <<"now">>

\* with_data for each of the keys, taken from the parts in order
RECURSIVE with_fields(_, _, _, _)
with_fields(message, keys, parts, from) ==
  IF keys = <<>> THEN message
  ELSE with_fields(with_data(message, Head(keys), field(parts, from)),
                   Tail(keys), parts, from + 1)

\* AisDataLinkProvider::parse_ais_sentence
parse_ais_sentence(s) ==
  IF ~starts_with(s, "!") /\ ~starts_with(s, "$") THEN None
  ELSE LET parts == split(s)
           sentence_type == field(parts, 0)
       IN IF Len(parts) < 6 THEN None
          ELSE IF ~contains(sentence_type, "AIVDM") /\ ~contains(sentence_type, "AIVDO")
          THEN None
          ELSE LET m0 == DataMessage_new("AIS_SENTENCE", "AIS_RECEIVER", s)
                   m1 == with_data(m0, "sentence_type", sentence_type)
                   m2 == with_fields(m1, <<"fragment_count", "fragment_number",
                                           "message_id", "channel", "payload">>,
                                     parts, 1)
                   m3 == with_data(m2, "timestamp", Now)
               IN Some(with_signal_quality(m3, IF contains_char(s, "*") THEN 90 ELSE 70))

\* format!("field_{}", i)
field_key(i) == "field_" \o ToString(i)

GpsKeywords == {"GPGGA", "GPRMC", "GPGLL", "GPVTG", "GPGSA", "GPGSV", "GNRMC",
                "GNGGA", "GNGLL"}

\* GpsDataLinkProvider::parse_gps_sentence
parse_gps_sentence(s) ==
  IF ~starts_with(s, "$") THEN None
  ELSE LET parts == split(s)
           sentence_type == field(parts, 0)
           has(keyword) == contains(sentence_type, keyword)
       IN IF Len(parts) < 3 THEN None
          ELSE IF \A keyword \in GpsKeywords : ~has(keyword) THEN None
          ELSE LET m0 == DataMessage_new("GPS_SENTENCE", "GPS_RECEIVER", s)
                   m1 == with_data(m0, "sentence_type", sentence_type)
                   m2 == IF has("GPGGA") \/ has("GNGGA")
                         THEN IF Len(parts) >= 15
                              THEN with_fields(m1, <<"time", "latitude", "lat_direction",
                                                     "longitude", "lon_direction",
                                                     "fix_quality", "satellites", "hdop",
                                                     "altitude", "altitude_unit">>,
                                               parts, 1)
                              ELSE m1
                         ELSE IF has("GPRMC") \/ has("GNRMC")
                         THEN IF Len(parts) >= 12
                              THEN with_fields(m1, <<"time", "status", "latitude",
                                                     "lat_direction", "longitude",
                                                     "lon_direction", "speed", "course",
                                                     "date">>, parts, 1)
                              ELSE m1
                         ELSE IF has("GPGLL") \/ has("GNGLL")
                         THEN IF Len(parts) >= 7
                              THEN with_fields(m1, <<"latitude", "lat_direction",
                                                     "longitude", "lon_direction",
                                                     "time", "status">>, parts, 1)
                              ELSE m1
                         ELSE with_fields(m1, [i \in 1..Len(parts) |-> field_key(i - 1)],
                                          parts, 0)
                   m3 == with_data(m2, "timestamp", Now)
               IN Some(with_signal_quality(m3, IF contains_char(s, "*") THEN 95 ELSE 75))

\* with_data of a number when the part parses as one
with_number(message, key, number) ==
  IF number = None THEN message ELSE with_data(message, key, to_string(number[1]))

\* RadarDataLinkProvider::parse_radar_target and parse_radar_status
parse_radar_target(s) ==
  LET parts == split(s) IN
  IF Len(parts) >= 6 /\ field(parts, 0) = <<"$", "RADTG">>
  THEN LET m0 == DataMessage_new("RADAR_TARGET", "RADAR_RECEIVER", s)
           m1 == with_number(m0, "range_nm", parse_f64(field(parts, 1)))
           m2 == with_number(m1, "bearing_deg", parse_f64(field(parts, 2)))
           m3 == with_number(m2, "speed_kts", parse_f64(field(parts, 3)))
           m4 == with_number(m3, "course_deg", parse_f64(field(parts, 4)))
           m5 == with_number(m4, "cpa_nm", parse_f64(before_star(field(parts, 5))))
       IN Some(with_data(m5, "sentence_type", <<"$", "RADTG">>))
  ELSE None
parse_radar_status(s) ==
  LET parts == split(s) IN
  IF Len(parts) >= 3 /\ field(parts, 0) = <<"$", "RADST">>
  THEN LET m0 == DataMessage_new("RADAR_STATUS", "RADAR_RECEIVER", s)
           m1 == with_data(m0, "status", field(parts, 1))
           m2 == with_data(m1, "health", before_star(field(parts, 2)))
       IN Some(with_data(m2, "sentence_type", <<"$", "RADST">>))
  ELSE None

\* with_data of a whole number when the part parses as one
with_i8(message, key, number) ==
  IF number = None THEN message
  ELSE with_data(message, key, to_string(number[1] * 1000))

\* RadarDataLinkProvider::parse_radar_scan and parse_radar_config
parse_radar_scan(s) ==
  LET parts == split(s) IN
  IF Len(parts) >= 6 /\ field(parts, 0) = <<"$", "RADSC">>
  THEN LET m0 == DataMessage_new("RADAR_SCAN", "RADAR_RECEIVER", s)
           m1 == with_number(m0, "sweep_angle", parse_f64(field(parts, 1)))
           m2 == with_number(m1, "range_nm", parse_f64(field(parts, 2)))
           m3 == with_data(m2, "gain", field(parts, 3))
           m4 == with_i8(m3, "sea_clutter_db", parse_i8(field(parts, 4)))
           m5 == with_data(m4, "rain_clutter", before_star(field(parts, 5)))
       IN Some(with_data(m5, "sentence_type", <<"$", "RADSC">>))
  ELSE None
parse_radar_config(s) ==
  LET parts == split(s) IN
  IF Len(parts) >= 5 /\ field(parts, 0) = <<"$", "RADCF">>
  THEN LET m0 == DataMessage_new("RADAR_CONFIG", "RADAR_RECEIVER", s)
           m1 == with_number(m0, "range_nm", parse_f64(field(parts, 1)))
           m2 == with_data(m1, "gain", field(parts, 2))
           m3 == with_i8(m2, "sea_clutter_db", parse_i8(field(parts, 3)))
           m4 == with_data(m3, "rain_clutter", before_star(field(parts, 4)))
       IN Some(with_data(m4, "sentence_type", <<"$", "RADCF">>))
  ELSE None

\* RadarDataLinkProvider::parse_radar_sentence
parse_radar_sentence(s) ==
  IF starts_with_str(s, "RADTG") THEN parse_radar_target(s)
  ELSE IF starts_with_str(s, "RADSC") THEN parse_radar_scan(s)
  ELSE IF starts_with_str(s, "RADCF") THEN parse_radar_config(s)
  ELSE IF starts_with_str(s, "RADST") THEN parse_radar_status(s)
  ELSE None

\* LocationData::default() and EnhancedLocationData::default()
LocationData_default ==
  [latitude |-> None, longitude |-> None, altitude |-> None, speed |-> None,
   timestamp |-> None, fix_quality |-> None, satellites |-> None]
EnhancedLocationData_default ==
  [latitude |-> None, longitude |-> None, altitude |-> None, speed |-> None,
   heading |-> None, timestamp |-> None, fix_quality |-> None,
   satellites |-> None, hdop |-> None]

\* a decoder that reads the raw value as decimal degrees times 100
decode_decimal(raw) == (raw * 60) \div 100

\* DDMM.mmm, given in thousandths, to degrees, given in 60000ths of a degree
\* (thousandths of a minute of arc): degrees = floor(raw / 100), minutes =
\* raw - degrees * 100, result = degrees + minutes / 60
decode(raw) ==
  LET degrees == raw \div 100000
      minutes == raw - degrees * 100000
  IN degrees * 60000 + minutes

\* a coordinate of a fix: decoded when both fields are there and the raw
\* one is a number, and negated for the hemisphere letter `negative`
coordinate(raw, hemisphere, negative) ==
  IF ~is_empty(raw) /\ ~is_empty(hemisphere) /\ parse_f64(raw) # None
  THEN Some(IF hemisphere = <<negative>>
            THEN 0 - decode(parse_f64(raw)[1])
            ELSE decode(parse_f64(raw)[1]))
  ELSE None
\* an optional field: Some(the text) unless it is empty
optional_text(part) == IF is_empty(part) THEN None ELSE Some(part)

\* GnssParser::parse_gpgga and parse_gprmc, starting from `default`
parse_gpgga(parts, default) ==
  IF Len(parts) < 15 THEN None
  ELSE Some([default EXCEPT
               !.timestamp = optional_text(field(parts, 1)),
               !.latitude = coordinate(field(parts, 2), field(parts, 3), "S"),
               !.longitude = coordinate(field(parts, 4), field(parts, 5), "W"),
               !.fix_quality = parse_u8(field(parts, 6)),
               !.satellites = parse_u8(field(parts, 7)),
               !.altitude = parse_f64(field(parts, 9))])
parse_gprmc(parts, default) ==
  IF Len(parts) < 12 THEN None
  ELSE IF field(parts, 2) # <<"A">> THEN None
  ELSE Some([default EXCEPT
               !.timestamp = optional_text(field(parts, 1)),
               !.latitude = coordinate(field(parts, 3), field(parts, 4), "S"),
               !.longitude = coordinate(field(parts, 5), field(parts, 6), "W"),
               !.speed = parse_f64(field(parts, 7))])

\* GnssParser::parse_sentence
parse_sentence(s) ==
  IF is_empty(s) \/ ~starts_with(s, "$") THEN None
  ELSE LET parts == split(s)
           sentence_type == field(parts, 0)
       IN IF sentence_type \in {<<"$", "GPGGA">>, <<"$", "GNGGA">>}
          THEN parse_gpgga(parts, LocationData_default)
          ELSE IF sentence_type \in {<<"$", "GPRMC">>, <<"$", "GNRMC">>}
          THEN parse_gprmc(parts, LocationData_default)
          ELSE None

\* EnhancedGnssParser::parse_gpvtg
parse_gpvtg(parts) ==
  IF Len(parts) < 9 THEN None
  ELSE Some([EnhancedLocationData_default EXCEPT
               !.heading = parse_f64(field(parts, 1)),
               !.speed = parse_f64(field(parts, 5))])

\* EnhancedGnssParser::parse_sentence: the position fix also takes hdop, the
\* course/speed sentence also the heading
parse_sentence_enhanced(s) ==
  IF is_empty(s) \/ ~starts_with(s, "$") THEN None
  ELSE LET parts == split(s)
           sentence_type == field(parts, 0)
           fix == parse_gpgga(parts, EnhancedLocationData_default)
           rmc == parse_gprmc(parts, EnhancedLocationData_default)
       IN IF sentence_type \in {<<"$", "GPGGA">>, <<"$", "GNGGA">>}
          THEN IF fix = None THEN None
               ELSE Some([fix[1] EXCEPT !.hdop = parse_f64(field(parts, 8))])
          ELSE IF sentence_type \in {<<"$", "GPRMC">>, <<"$", "GNRMC">>}
          THEN IF rmc = None THEN None
               ELSE Some([rmc[1] EXCEPT !.heading = parse_f64(field(parts, 8))])
          ELSE IF sentence_type \in {<<"$", "GPVTG">>, <<"$", "GNVTG">>}
          THEN parse_gpvtg(parts)
          ELSE None

Parsers == {"ais", "gps", "radar", "gnss", "enhanced"}

\* what the parser of that name returns for a line
apply(name, s) ==
  CASE name = "ais" -> parse_ais_sentence(s)
    [] name = "gps" -> parse_gps_sentence(s)
    [] name = "radar" -> parse_radar_sentence(s)
    [] name = "gnss" -> parse_sentence(s)
    [] name = "enhanced" -> parse_sentence_enhanced(s)

\* a parser is called with the line
parse(name) ==
  /\ parser = "none"
  /\ parser' = name
  /\ parsed' = apply(name, sentence)
  /\ UNCHANGED sentence
  /\ UNCHANGED <<server_vars, link_vars, unit_vars>>

InitParse ==
  /\ SharedInit
  /\ bb_data = parse_ais_message(UpstreamValue(None, None))
  /\ bb_box = Box1
  /\ bb_result = None
  /\ LinkNew("ais")
  /\ sentence \in Sentences
  /\ parser = "none"
  /\ parsed = None
  /\ UnitNew

NextParse == \E name \in Parsers : parse(name)

SpecParse == InitParse /\ [][NextParse]_vars

(***************************************************************************)
(* The ship-type mapping of the AIS server.                                *)
(***************************************************************************)
\* the ship-type codes tried are 0..MaxShipType and 999
MaxShipType == 120

\* a mapping that knows the ranges of ten only
ship_type_by_range(st) ==
  CASE st \in 20..29 -> "Wing in ground (WIG)"
    [] st \in 40..49 -> "High speed craft (HSC)"
    [] st \in 60..69 -> "Passenger"
    [] st \in 70..79 -> "Cargo"
    [] st \in 80..89 -> "Tanker"
    [] st \in 90..99 -> "Other Type"
    [] OTHER -> "Unknown"

\* get_ship_type_description: the first arm of the match that fits
get_ship_type_description(st) ==
  IF st \in 20..29 THEN "Wing in ground (WIG)"
  ELSE IF st = 30 THEN "Fishing"
  ELSE IF st = 31 THEN "Towing"
  ELSE IF st = 32
  THEN "Towing: length exceeds 200m or breadth exceeds 25m"
  ELSE IF st = 33 THEN "Dredging or underwater ops"
  ELSE IF st = 34 THEN "Diving ops"
  ELSE IF st = 35 THEN "Military ops"
  ELSE IF st = 36 THEN "Sailing"
  ELSE IF st = 37 THEN "Pleasure Craft"
  ELSE IF st \in 40..49 THEN "High speed craft (HSC)"
  ELSE IF st = 50 THEN "Pilot Vessel"
  ELSE IF st = 51 THEN "Search and Rescue vessel"
  ELSE IF st = 52 THEN "Tug"
  ELSE IF st = 53 THEN "Port Tender"
  ELSE IF st = 54 THEN "Anti-pollution equipment"
  ELSE IF st = 55 THEN "Law Enforcement"
  ELSE IF st = 58 THEN "Medical Transport"
  ELSE IF st = 59
  THEN "Noncombatant ship according to RR Resolution No. 18"
  ELSE IF st \in 60..69 THEN "Passenger"
  ELSE IF st \in 70..79 THEN "Cargo"
  ELSE IF st \in 80..89 THEN "Tanker"
  ELSE IF st \in 90..99 THEN "Other Type"
  ELSE "Unknown"

\* parse_ais_message maps the Type of a static-data report, when it is an
\* unsigned number, to its description
describe_ship_type ==
  /\ ship_type # None
  /\ ship_type_description = None
  /\ ship_type_description' = Some(get_ship_type_description(ship_type[1]))
  /\ UNCHANGED <<ship_type, known_devices, handled>>
  /\ UNCHANGED <<server_vars, link_vars, parse_vars>>

InitShip ==
  /\ SharedInit
  /\ bb_data = parse_ais_message(UpstreamValue(None, None))
  /\ bb_box = Box1
  /\ bb_result = None
  /\ LinkNew("ais")
  /\ ParseNew
  /\ ship_type \in {Some(code) : code \in 0..MaxShipType \cup {999}}
  /\ ship_type_description = None
  /\ known_devices = <<>>
  /\ handled = 0

NextShip == describe_ship_type

SpecShip == InitShip /\ [][NextShip]_vars

(***************************************************************************)
(* The simulation data link: one SimulationDataLink, held in the status,   *)
(* config and message_queue of the provider variables.                     *)
(***************************************************************************)
\* calls made on the simulation data link in a behaviour
MaxSimCalls == 4

\* DataLinkConfig::new("simulation") and a configuration of another type
SimConfigs == {CfgUnsupported, CfgTcp}

\* generate_sample_ais_messages: three sample messages are appended
generate_sample_ais_messages(q) ==
  q \o <<DataMessage(0, 1), DataMessage(0, 2), DataMessage(0, 3)>>

\* SimulationDataLink::connect
sim_connect(cfg) ==
  /\ calls < MaxSimCalls
  /\ calls' = calls + 1
  /\ IF cfg.connection_type = Some("simulation")
     THEN /\ config' = Some(cfg)
          /\ status' = "Connected"
          /\ message_queue' = generate_sample_ais_messages(message_queue)
          /\ result' = Result("connect", Ok("unit"))
     ELSE /\ result' = Result("connect", Err("InvalidConfig"))
          /\ UNCHANGED <<config, status, message_queue>>
  /\ UNCHANGED <<provider, source_config, receiver_handle, shutdown_tx, task,
                 call, received, lines_read>>
  /\ UNCHANGED <<server_vars, parse_vars, unit_vars>>

\* a receive_message that hands out the oldest message in every status
sim_receive_unchecked ==
  /\ calls < MaxSimCalls
  /\ calls' = calls + 1
  /\ IF message_queue # <<>>
     THEN /\ result' = Result("receive_message", Ok(Some(Head(message_queue))))
          /\ message_queue' = Tail(message_queue)
          /\ received' = Append(received, Head(message_queue))
     ELSE /\ result' = Result("receive_message", Ok(None))
          /\ UNCHANGED <<message_queue, received>>
  /\ UNCHANGED <<provider, status, config, source_config, receiver_handle,
                 shutdown_tx, task, call, lines_read>>
  /\ UNCHANGED <<server_vars, parse_vars, unit_vars>>

\* SimulationDataLink::receive_message: message_queue.remove(0) when
\* Connected and the queue is not empty, None otherwise
sim_receive_message ==
  /\ calls < MaxSimCalls
  /\ calls' = calls + 1
  /\ IF status = "Connected" /\ message_queue # <<>>
     THEN /\ result' = Result("receive_message", Ok(Some(Head(message_queue))))
          /\ message_queue' = Tail(message_queue)
          /\ received' = Append(received, Head(message_queue))
     ELSE /\ result' = Result("receive_message", Ok(None))
          /\ UNCHANGED <<message_queue, received>>
  /\ UNCHANGED <<provider, status, config, source_config, receiver_handle,
                 shutdown_tx, task, call, lines_read>>
  /\ UNCHANGED <<server_vars, parse_vars, unit_vars>>

\* SimulationDataLink::disconnect
sim_disconnect ==
  /\ calls < MaxSimCalls
  /\ calls' = calls + 1
  /\ status' = "Disconnected"
  /\ config' = None
  /\ message_queue' = <<>>
  /\ result' = Result("disconnect", Ok("unit"))
  /\ UNCHANGED <<provider, source_config, receiver_handle, shutdown_tx, task,
                 call, received, lines_read>>
  /\ UNCHANGED <<server_vars, parse_vars, unit_vars>>

\* SimulationDataLink::send_message: acknowledged when connected
sim_send_message(message) ==
  /\ calls < MaxSimCalls
  /\ calls' = calls + 1
  /\ result' = Result("send_message",
                      IF status = "Connected" THEN Ok("unit")
                      ELSE Err("ConnectionFailed"))
  /\ UNCHANGED <<provider, status, config, source_config, message_queue,
                 receiver_handle, shutdown_tx, task, call, received, lines_read>>
  /\ UNCHANGED <<server_vars, parse_vars, unit_vars>>

\* SimulationDataLink::add_simulated_message
add_simulated_message(message) ==
  /\ calls < MaxSimCalls
  /\ calls' = calls + 1
  /\ message_queue' = Append(message_queue, message)
  /\ result' = NoResult
  /\ UNCHANGED <<provider, status, config, source_config, receiver_handle,
                 shutdown_tx, task, call, received, lines_read>>
  /\ UNCHANGED <<server_vars, parse_vars, unit_vars>>

\* SimulationDataLink::new()
InitSim ==
  /\ SharedInit
  /\ bb_data = parse_ais_message(UpstreamValue(None, None))
  /\ bb_box = Box1
  /\ bb_result = None
  /\ LinkNew("simulation")
  /\ ParseNew
  /\ UnitNew

NextSim ==
  \/ \E cfg \in SimConfigs : sim_connect(cfg)
  \/ sim_receive_message
  \/ sim_disconnect
  \/ \E message \in Outgoing : sim_send_message(message)
  \/ add_simulated_message(DataMessage(1, 1))

SpecSim == InitSim /\ [][NextSim]_vars

(***************************************************************************)
(* The discovery protocol of the hardware bus: the registry of known       *)
(* devices of one DiscoveryProtocol and the handlers of incoming messages. *)
(***************************************************************************)
\* discovery messages handled in a behaviour
MaxHandled == 4
\* timestamps are 0..MaxSeen
MaxSeen == 2

\* bus addresses: the local device's own and those of other devices
Addresses == {"local", "a", "b"}
DeviceInfo(address, last_seen) == [address |-> address, last_seen |-> last_seen]
local_device == DeviceInfo("local", 0)

\* HashMap::insert
insert(devices, address, device_info) ==
  [a \in DOMAIN devices \cup {address} |->
     IF a = address THEN device_info ELSE devices[a]]

\* handle_device_announcement
handle_device_announcement(device_info) ==
  /\ handled < MaxHandled
  /\ handled' = handled + 1
  /\ known_devices' = insert(known_devices, device_info.address, device_info)
  /\ UNCHANGED <<ship_type, ship_type_description>>
  /\ UNCHANGED <<server_vars, link_vars, parse_vars>>

\* the loop of handle_discovery_response: every device but the local one
\* is inserted, in order
RECURSIVE insert_others(_, _)
insert_others(known, devices) ==
  IF devices = <<>> THEN known
  ELSE insert_others(IF Head(devices).address # local_device.address
                     THEN insert(known, Head(devices).address, Head(devices))
                     ELSE known,
                     Tail(devices))

\* handle_discovery_response
handle_discovery_response(devices) ==
  /\ handled < MaxHandled
  /\ handled' = handled + 1
  /\ known_devices' = insert_others(known_devices, devices)
  /\ UNCHANGED <<ship_type, ship_type_description>>
  /\ UNCHANGED <<server_vars, link_vars, parse_vars>>

\* handle_heartbeat: last_seen of a known device is set
handle_heartbeat(device, timestamp) ==
  /\ handled < MaxHandled
  /\ handled' = handled + 1
  /\ known_devices' =
       IF device \in DOMAIN known_devices
       THEN [known_devices EXCEPT ![device].last_seen = timestamp]
       ELSE known_devices
  /\ UNCHANGED <<ship_type, ship_type_description>>
  /\ UNCHANGED <<server_vars, link_vars, parse_vars>>

\* handle_goodbye: HashMap::remove
handle_goodbye(device) ==
  /\ handled < MaxHandled
  /\ handled' = handled + 1
  /\ known_devices' = [a \in DOMAIN known_devices \ {device} |-> known_devices[a]]
  /\ UNCHANGED <<ship_type, ship_type_description>>
  /\ UNCHANGED <<server_vars, link_vars, parse_vars>>

\* DiscoveryProtocol::new
InitDiscovery ==
  /\ SharedInit
  /\ bb_data = parse_ais_message(UpstreamValue(None, None))
  /\ bb_box = Box1
  /\ bb_result = None
  /\ LinkNew("ais")
  /\ ParseNew
  /\ UnitNew

\* handle_discovery_message, by the type of the message
NextDiscovery ==
  \/ \E address \in Addresses, last_seen \in 0..MaxSeen :
       handle_device_announcement(DeviceInfo(address, last_seen))
  \/ \E first \in Addresses, second \in Addresses :
       handle_discovery_response(<<DeviceInfo(first, 0), DeviceInfo(second, 0)>>)
  \/ \E device \in Addresses, timestamp \in 0..MaxSeen :
       handle_heartbeat(device, timestamp)
  \/ \E device \in Addresses : handle_goodbye(device)

SpecDiscovery == InitDiscovery /\ [][NextDiscovery]_vars

(***************************************************************************)
(* Properties.                                                             *)
(***************************************************************************)
live_tasks == {t \in Tasks : upstream[t] \in Live}
shared_unchanged ==
  /\ ais_sender' = ais_sender
  /\ ais_stream_started' = ais_stream_started
  /\ started_lock' = started_lock
  /\ chan' = chan
  /\ upstream' = upstream
  /\ frames' = frames

\* the box condition of the filter, written out: no box, or both coordinates
\* present and inside the box, bounds included
passes(data, bbox) ==
  \/ bbox = None
  \/ /\ data.latitude # None
     /\ data.longitude # None
     /\ bbox[1].sw_lat <= data.latitude[1]
     /\ data.latitude[1] <= bbox[1].ne_lat
     /\ bbox[1].sw_lon <= data.longitude[1]
     /\ data.longitude[1] <= bbox[1].ne_lon

\* C1: once every attached connection has left again (N acquires followed by N
\* releases, the stream having been asked for), exactly one upstream task was
\* spawned and it has been torn down; the client count is never negative.
C1_OneSpawnOneTeardown ==
  /\ client_count >= 0
  /\ (ais_stream_started /\ client_count = 0) => (spawned = 1 /\ ~upstream_live)

\* C2: a live upstream task and a fan-out sender exist if and only if at least
\* one downstream connection is attached.
C2_UpstreamIffClients ==
  /\ upstream_live <=> client_count > 0
  /\ ais_sender <=> client_count > 0

\* C3: at most one upstream task is live at any time, and a task is spawned only
\* in the step that finds the started flag clear and sets it, with the flag's
\* lock free before and after that step (decision and recording are one
\* critical section).
C3_SingleUpstream ==
  /\ [](Cardinality(live_tasks) <= 1)
  /\ [][ (spawned' # spawned \/ ais_stream_started' # ais_stream_started) =>
           /\ ~ais_stream_started
           /\ ais_stream_started'
           /\ spawned' = spawned + 1
           /\ started_lock = None
           /\ started_lock' = None ]_vars

\* C3 witness: one connection was told ais_stream_started, another asked for
\* the stream too and is being told that it has already started, and the
\* single upstream task is live.
C3_Witness ==
  \E c \in Conns : \E d \in Conns \ {c} :
    /\ conn[c].reply.type = "ais_stream_started"
    /\ conn[d].pc = "already_reply"
    /\ Cardinality(live_tasks) = 1

\* C4: every exit of an attached handler performs one release: the client count
\* drops by one, and when it reaches zero the upstream task is torn down.
C4_ExitReleases ==
  [][ \A c \in Conns :
        (conn[c].pc \in Attached /\ conn'[c].pc \in Closed) =>
          /\ client_count' = client_count - 1
          /\ client_count' = 0 => ~upstream_live' ]_vars

\* C5: while a consumer is attached, a failure or close of the upstream
\* connection does not end the upstream task (it waits and connects again).
C5_RetryWhileAttached ==
  [][ \A t \in Tasks :
        (upstream[t] \in Live /\ upstream'[t] \notin Live) => client_count = 0 ]_vars

\* C6: a fanned-out message is sent to a connection exactly when the connection
\* has no box or the message lies inside the box the connection holds at the
\* moment it handles the message.
C6_FilterAtForwarding ==
  [][ \A c \in Conns :
        LET l == conn[c]
            m == conn'[c]
        IN
        /\ (m.pc = "loop" /\ m.sent # l.sent) =>
             /\ l.pc = "loop"
             /\ l.pos < Len(chan)
             /\ m.pos = l.pos + 1
             /\ m.sent = Append(l.sent, l.pos + 1)
             /\ m.bounding_box = l.bounding_box
             /\ passes(chan[l.pos + 1], l.bounding_box)
        /\ (l.pc = "loop" /\ m.pc = "loop" /\ m.pos = l.pos + 1
                          /\ m.lag_note = l.lag_note) =>
             (m.sent # l.sent <=> passes(chan[l.pos + 1], l.bounding_box))
        /\ (l.pc = "loop" /\ m.pc = "send_failed" /\ inbound' = inbound) =>
             /\ l.pos < Len(chan)
             /\ passes(chan[l.pos + 1], l.bounding_box) ]_vars

\* C6 witness: a connection holding Box1 was sent the message inside the box
\* and has then handled the message outside it without sending it.
C6_Witness ==
  \E c \in Conns :
    /\ conn[c].bounding_box = Some(Box1)
    /\ conn[c].lag_note = None
    /\ conn[c].sent = <<1>>
    /\ conn[c].pos = 2
    /\ chan[1] = parse_ais_message(InBox1)
    /\ chan[2] = parse_ais_message(OutOfBox1)

\* C7: the box test is true exactly when both coordinates are present and
\* sw_lat <= lat <= ne_lat and sw_lon <= lon <= ne_lon.
C7_BoxTest ==
  bb_result # None =>
    bb_result[1] =
      IF bb_data.latitude # None /\ bb_data.longitude # None
      THEN /\ bb_box.sw_lat <= bb_data.latitude[1]
           /\ bb_data.latitude[1] <= bb_box.ne_lat
           /\ bb_box.sw_lon <= bb_data.longitude[1]
           /\ bb_data.longitude[1] <= bb_box.ne_lon
      ELSE FALSE

\* C7 witness: a message on the south-west corner of a box with distinct
\* corners was tested and found inside.
C7_Witness ==
  /\ bb_result = Some(TRUE)
  /\ bb_data.latitude = Some(bb_box.sw_lat)
  /\ bb_data.longitude = Some(bb_box.sw_lon)
  /\ bb_box.sw_lat < bb_box.ne_lat
  /\ bb_box.sw_lon < bb_box.ne_lon

\* C8: the filter of a running handler changes only in a step that handles an
\* inbound frame of its own connection, and such a step leaves the shared state
\* and every other connection's locals (filter, cursor, frames sent) as they
\* were; so does every step that handles an inbound frame of one connection.
C8_FilterIndependence ==
  [][ \A c \in Conns : \A d \in Conns \ {c} :
        /\ (conn'[c].bounding_box # conn[c].bounding_box /\ conn'[c].pc \in Attached) =>
             /\ inbound' = inbound + 1
             /\ conn'[d] = conn[d]
             /\ shared_unchanged
        /\ (inbound' # inbound /\ conn'[c] # conn[c]) => conn'[d] = conn[d] ]_vars

\* C8 witness: one connection holds Box1 and the other no box; both handled the
\* same two messages, the first sent to both, the second only to the
\* connection without a box.
C8_Witness ==
  \E c \in Conns : \E d \in Conns \ {c} :
    /\ conn[c].bounding_box = Some(Box1)
    /\ conn[d].bounding_box = None
    /\ conn[c].sent = <<1>>
    /\ conn[c].pos = 2
    /\ conn[d].sent = <<1, 2>>

is_set_bounding_box(text) == text.shape = "message" /\ text.type = "set_bounding_box"
is_start_ais_stream(text) == text.shape = "message" /\ text.type = "start_ais_stream"
\* the step in which the handling of connection c's last text frame ends with a
\* frame sent to the client
completes(c) ==
  /\ conn'[c].pc = "loop"
  /\ conn'[c].req # None
  /\ \/ inbound' = inbound + 1 /\ conn[c].pc = "loop" /\ conn'[c] # conn[c]
     \/ conn[c].pc \in {"start_wait", "already_reply"}

\* C9 as stated: set_bounding_box with a box sets the filter, without a box
\* clears it, and every other text is echoed and changes neither the filter nor
\* the shared state.
C9_EveryOtherTypeEchoed ==
  [][ \A c \in Conns :
        completes(c) =>
          LET text == conn'[c].req[1] IN
          IF is_set_bounding_box(text)
          THEN conn'[c].bounding_box = text.bounding_box
          ELSE /\ conn'[c].reply = EchoReply(text)
               /\ conn'[c].bounding_box = conn[c].bounding_box
               /\ shared_unchanged ]_vars

\* C9 amended: set_bounding_box with a box sets the filter, without a box
\* clears it; start_ais_stream is answered with ais_stream_started or
\* ais_stream_already_started, leaves the filter alone and leaves the started
\* flag set; every other text is echoed and changes neither the filter nor the
\* shared state.
C9_EchoExceptStart ==
  [][ \A c \in Conns :
        completes(c) =>
          LET text == conn'[c].req[1] IN
          IF is_set_bounding_box(text)
          THEN /\ conn'[c].bounding_box = text.bounding_box
               /\ conn'[c].reply.type =
                    IF text.bounding_box # None THEN "bounding_box_set"
                                                ELSE "bounding_box_cleared"
               /\ shared_unchanged
          ELSE IF is_start_ais_stream(text)
          THEN /\ conn'[c].reply.type \in {"ais_stream_started", "ais_stream_already_started"}
               /\ conn'[c].bounding_box = conn[c].bounding_box
               /\ ais_stream_started'
          ELSE /\ conn'[c].reply = EchoReply(text)
               /\ conn'[c].bounding_box = conn[c].bounding_box
               /\ shared_unchanged ]_vars

\* C9 witness: a JSON message of another type, carrying a box, was echoed and
\* the connection's filter is still absent.
C9_Witness ==
  \E c \in Conns :
    /\ conn[c].req = Some(ClientText("message", "clear_bounding_box", Some(Box1)))
    /\ conn[c].reply = EchoReply(ClientText("message", "clear_bounding_box", Some(Box1)))
    /\ conn[c].bounding_box = None
    /\ conn[c].pc = "loop"

C11_PerSubscriberFifo ==
  \A c \in Conns :
    LET s == conn[c].sent IN
    /\ \A i \in 1..Len(s) : s[i] \in 1..Len(chan)
    /\ \A i \in 1..Len(s) : \A j \in 1..Len(s) : i < j => s[i] < s[j]
    /\ conn[c].pc \in Attached => conn[c].pos <= Len(chan)
    /\ \A i \in 1..Len(s) : s[i] <= conn[c].pos

\* C11 witness: one connection has been sent two values in push order while
\* the other connection, attached as well, has been sent fewer.
C11_Witness ==
  \E c \in Conns : \E d \in Conns \ {c} :
    /\ conn[c].sent = <<1, 2>>
    /\ conn[d].pc = "loop"
    /\ Len(conn[d].sent) < 2

failure_exits == {"socket_error", "send_failed"}

\* C12: a step in which one handler ends with a socket error or a failed send
\* leaves every other handler's locals (subscription cursor, filter, what it
\* was sent) as they were, leaves the channel and the sender as they were,
\* ends no upstream task and does not leave the started lock held.
C12_FailureIsolation ==
  [][ \A c \in Conns :
        (conn[c].pc \in Attached /\ conn'[c].pc \in failure_exits) =>
          /\ \A d \in Conns \ {c} : conn'[d] = conn[d]
          /\ chan' = chan
          /\ ais_sender' = ais_sender
          /\ \A t \in Tasks : upstream[t] \in Live => upstream'[t] = upstream[t]
          /\ started_lock' # Some(c) ]_vars

\* C12 witness: one handler has ended with a socket error or a failed send
\* and the other, still attached with its filter, has been sent a value by
\* the upstream task, which is still streaming.
C12_Witness ==
  \E c \in Conns : \E d \in Conns \ {c} :
    /\ conn[c].pc \in failure_exits
    /\ conn[d].pc = "loop"
    /\ conn[d].bounding_box # None
    /\ conn[d].sent # <<>>
    /\ \E t \in Tasks : upstream[t] = "streaming"

\* C13: for every provider the message buffer never holds more messages than
\* its capacity, in every state between two critical sections.
C13_BufferBounded == Len(message_queue) <= QueueCap

\* a step in which a receiver pushes a message
pushes == lines_read' = lines_read + 1 /\ message_queue' # message_queue

\* C14: a push into a buffer that holds as many messages as its capacity
\* evicts exactly the oldest one: afterwards the buffer holds the messages it
\* held before without the first, followed by the pushed one.
C14_EvictOldest ==
  [][ (pushes /\ Len(message_queue) = QueueCap) =>
        /\ Len(message_queue') = QueueCap
        /\ SubSeq(message_queue', 1, QueueCap - 1) = Tail(message_queue) ]_vars

\* the messages of one receiver task occur in s in the order they were read
in_read_order(s) ==
  \A i \in 1..Len(s) : \A j \in 1..Len(s) :
    (i < j /\ s[i].task = s[j].task) => s[i].n < s[j].n

\* C15: the messages of one receiver are in the buffer in the order they
\* were read, and receive_message / receive_all_messages hand them to the
\* caller in that order: what was returned, followed by what is buffered, is
\* in read order for every receiver.
C15_ReadOrder == in_read_order(received \o message_queue)

\* C15 witness: two messages of the same receiver have been returned, the
\* second one by a later call, and a third is still buffered.
C15_Witness ==
  /\ Len(received) >= 2
  /\ received[1].task = received[2].task
  /\ calls >= 3
  /\ message_queue # <<>>

StatusSteps ==
  {<<"Disconnected", "Connecting">>, <<"Connecting", "Connected">>,
   <<"Connected", "Error">>, <<"Connected", "Disconnected">>,
   <<"Connecting", "Error">>, <<"Connecting", "Disconnected">>}

\* C16: the status starts at Disconnected and every change of it is one of
\* the six permitted transitions.
C16_StatusTransitions ==
  /\ status = "Disconnected"
  /\ [][ status' # status => <<status, status'>> \in StatusSteps ]_vars

\* the configurations of Configs that lack the connection kind, name an
\* unsupported kind, or lack or garble a parameter the provider requires
InvalidConfigs(p) ==
  {CfgNoType, CfgUnsupported, CfgTcpNoPort, CfgTcpBadPort}
    \cup (IF p \in {"radar", "gpyes"} THEN {CfgSerialNoBaud} ELSE {})

\* a step in which a receiver task is spawned
spawning == \E t \in LinkTasks : task[t].st = "none" /\ task'[t].st # "none"

\* C17: connect with an invalid configuration returns the
\* invalid-configuration error in the step of the call itself, with no task
\* spawned; and a task is spawned only by a connect whose configuration has
\* passed validation.
C17_ValidateBeforeSpawn ==
  [][ /\ \A cfg \in Configs :
           (connect(cfg) /\ cfg \in InvalidConfigs(provider)) =>
             /\ result' = Result("connect", Err("InvalidConfig"))
             /\ call' = Idle
             /\ ~spawning
      /\ spawning =>
           /\ call.pc = "connect_start"
           /\ result.op # "connect" ]_vars

\* C17 witness: connect has returned the invalid-configuration error and no
\* receiver task exists.
C17_Witness ==
  /\ result = Result("connect", Err("InvalidConfig"))
  /\ call = Idle
  /\ \A t \in LinkTasks : task[t].st = "none"

\* a step in which connect returns a configuration error
connect_fails ==
  /\ call = Idle
  /\ calls' = calls + 1
  /\ result' = Result("connect", Err("InvalidConfig"))

\* C18: a connect that fails with a configuration error leaves status,
\* stored configuration, source configuration, receiver handle and shutdown
\* sender as they were before the call.
C18_NoPartialState ==
  [][ connect_fails =>
        /\ status' = status
        /\ config' = config
        /\ source_config' = source_config
        /\ receiver_handle' = receiver_handle
        /\ shutdown_tx' = shutdown_tx ]_vars

\* C19: whenever the caller is outside every call and the status is
\* Connected, a receiver handle and a shutdown sender are recorded, and the
\* handle is that of a task that was spawned.
C19_ConnectedHasReceiver ==
  (call = Idle /\ status = "Connected") =>
    /\ receiver_handle # None
    /\ shutdown_tx # None
    /\ task[receiver_handle[1]].st # "none"

\* C20: once disconnect has returned and until the next call, no receiver
\* task is running, the status is Disconnected and no configuration is
\* stored; and nothing is pushed into the buffer in that time.
C20_DisconnectStops ==
  /\ [](result.op = "disconnect" =>
          /\ \A t \in LinkTasks : task[t].st # "running"
          /\ status = "Disconnected"
          /\ config = None)
  /\ [][ result.op = "disconnect" => ~pushes ]_vars

\* C21: receive_message returns None and receive_all_messages collects
\* nothing whenever the buffer is empty or the status is not Connected:
\* before the first connect, after a failed connect and after disconnect,
\* even if messages are still buffered.  Both calls are one step that waits
\* for nothing but the buffer's lock.
C21_NoneUnlessConnected ==
  /\ [][(message_queue = <<>> \/ status # "Connected")
          => /\ received' = received
             /\ (result'.op = "receive_message" /\ calls' # calls)
                  => result'.value = Ok(None)]_vars
  /\ [](call = Idle /\ calls < MaxCalls => ENABLED receive_message)

\* the parts of a provider that a failed call must leave alone
provider_state == <<status, message_queue, config, source_config,
                    receiver_handle, shutdown_tx, task>>

\* C22: send_message fails with a transport error in every provider state
\* and for every message, and leaves status, buffer, configuration and
\* receiver task unchanged.
C22_SendUnsupported ==
  [][(result'.op = "send_message" /\ calls' # calls)
       => /\ result'.value = Err("TransportError")
          /\ UNCHANGED provider_state]_vars

\* a send_message on a connected provider with a running receiver and a
\* buffered message
C22_Witness ==
  /\ result.op = "send_message"
  /\ status = "Connected"
  /\ message_queue # <<>>
  /\ \E t \in LinkTasks : task[t].st = "running"

\* C23: in every receiver loop a zero-length read or close ends the loop
\* with no error, a recoverable read error (timeout, interrupted call) is
\* logged and the loop continues with the next read, and any other I/O error
\* ends the loop with an error as the receiver's result.
C23_ReadOutcomes ==
  [][\A t \in LinkTasks :
       (task[t].st = "running" /\ task'[t].outcome # task[t].outcome) =>
         /\ task'[t].outcome = "closed" =>
              task'[t].st = "returned" /\ task'[t].ret = "Ok"
         /\ task'[t].outcome = "recoverable" => task'[t].st = "running"
         /\ task'[t].outcome = "fatal" =>
              task'[t].st = "returned" /\ task'[t].ret = "Err"]_vars

\* C24: a line that the parser rejects is dropped: nothing is enqueued for
\* it and the receiver loop does not end; a valid line read by the same
\* receiver, also after rejected ones, is enqueued as the newest message;
\* and a running receiver at its select! can always take the next line.
C24_RejectedLineDropped ==
  /\ [][\A t \in LinkTasks :
          /\ receiver_read(t, FALSE) =>
               /\ message_queue' = message_queue
               /\ task'[t].st = "running"
               /\ task'[t].n = task[t].n + 1
          /\ receiver_read(t, TRUE) =>
               /\ message_queue' # <<>>
               /\ message_queue'[Len(message_queue')] = DataMessage(t, task'[t].n)
               /\ task'[t].st = "running"]_vars
  /\ [](\A t \in LinkTasks :
          (task[t].st = "running" /\ task[t].at = "select" /\ lines_read < MaxLines)
            => ENABLED receiver_read(t, TRUE))

\* a receiver whose first line was rejected and whose second line is in the
\* buffer, with nothing received or cleared in between
C24_Witness ==
  \E t \in LinkTasks :
    /\ task[t].st = "running"
    /\ task[t].n = 2
    /\ task[t].shutdown = "open"
    /\ message_queue = <<DataMessage(t, 2)>>
    /\ received = <<>>
    /\ calls = 1

\* C25: a file-replay receiver races its pacing sleep against the shutdown
\* signal: a signal that arrives while the receiver is in the pacing delay
\* ends the loop from within the delay, and no further line is read or
\* enqueued after the signal.
C25_ReplayCancellable ==
  /\ [](\A t \in LinkTasks :
          (task[t].st = "running" /\ task[t].kind = "file"
             /\ task[t].at = "delay" /\ task[t].signalled_in = "delay")
            => ENABLED receiver_shutdown(t))
  /\ [][\A t \in LinkTasks :
          (task[t].kind = "file" /\ task[t].signalled_in = "delay")
            => task'[t].n = task[t].n /\ ~pushes]_vars

Prefixes(name) == IF name = "ais" THEN {"!", "$"} ELSE {"$"}

\* C27: for a line that does not begin with the expected prefix ('$' or '!'
\* for identification sentences, '$' for position and radar sentences), the
\* empty line included, every parser returns no result (and its evaluation
\* never indexes a part that is not there).
C27_WrongPrefixNone ==
  (parser # "none" /\ (sentence = <<>> \/ Head(sentence) \notin Prefixes(parser)))
    => parsed = None

\* a complete course/speed line without its '$', given to a position parser
C27_Witness ==
  /\ parser = "gnss"
  /\ sentence # <<>>
  /\ Head(sentence) = "GPRMC"
  /\ Len(split(sentence)) = 12
  /\ field(split(sentence), 2) = <<"A">>
  /\ parsed = None

\* the number of comma-separated fields of a line
fields_of(s) == Cardinality({i \in 1..Len(s) : s[i] = ","}) + 1
\* the first field of a line carries one of the identification keywords
carries_keyword(s) ==
  \E i \in 1..Len(s) :
    /\ s[i] \in {"AIVDM", "AIVDO", "XAIVDMX"}
    /\ \A j \in 1..i : s[j] # ","

\* C28: the identification parser returns a message exactly when the line
\* starts with '!' or '$', has at least 6 comma-separated fields and its
\* first field carries AIVDM or AIVDO; the message holds fragment count,
\* fragment number, message id, channel and payload from fields 1 to 5, and
\* its signal quality is 90 if the line contains '*' and 70 otherwise.
C28_IdentificationParser ==
  parser = "ais" =>
    LET accepted == /\ sentence # <<>>
                    /\ Head(sentence) \in {"!", "$"}
                    /\ fields_of(sentence) >= 6
                    /\ carries_keyword(sentence)
        parts == split(sentence)
    IN /\ parsed # None <=> accepted
       /\ accepted =>
            /\ parsed[1].data["fragment_count"] = parts[2]
            /\ parsed[1].data["fragment_number"] = parts[3]
            /\ parsed[1].data["message_id"] = parts[4]
            /\ parsed[1].data["channel"] = parts[5]
            /\ parsed[1].data["payload"] = parts[6]
            /\ parsed[1].signal_quality =
                 Some(IF \E i \in 1..Len(sentence) : sentence[i] = "*" THEN 90 ELSE 70)

\* an own-ship sentence ($...AIVDO) without checksum, parsed with quality 70
C28_Witness ==
  /\ parser = "ais"
  /\ parsed # None
  /\ Head(sentence) = "$"
  /\ parsed # None
  /\ parsed[1].data["sentence_type"] = <<"$", "AIVDO">>
  /\ parsed[1].data["payload"] = <<"payload">>
  /\ parsed[1].signal_quality = Some(70)

\* the line is a course/speed (RMC) sentence
is_rmc(s) == Len(s) >= 2 /\ s[1] = "$" /\ s[2] \in {"GPRMC", "GNRMC"}

\* C29: every position parser returns a result for a course/speed (RMC)
\* sentence only when its validity flag, field 2, is "A".
C29_RmcNeedsValidFix ==
  (parser \in {"gps", "gnss", "enhanced"} /\ is_rmc(sentence) /\ parsed # None)
    => field(split(sentence), 2) = <<"A">>

\* the degrees, in 60000ths, that a raw DDMM.mmm in thousandths stands for
degrees_of(raw) == (raw \div 100000) * 60000 + (raw % 100000)
\* the coordinate a raw field and a hemisphere letter must decode to
expected(raw, hemisphere, negative) ==
  Some(IF hemisphere = <<negative>> THEN 0 - degrees_of(Thousandths[raw[1]])
       ELSE degrees_of(Thousandths[raw[1]]))
\* a raw coordinate with a hemisphere letter
decodable(raw, hemisphere) ==
  Len(raw) = 1 /\ raw[1] \in DOMAIN Thousandths /\ hemisphere # <<>>

\* C30: in every result of the position parsers that decode coordinates, a
\* raw field DDMM.mmm with a hemisphere letter gives floor(raw / 100) +
\* (raw - 100 * floor(raw / 100)) / 60 degrees, negated iff the letter is S
\* (latitude) or W (longitude); 4807.038,N gives about 48.1173 and
\* 01131.000,E about 11.5167 degrees.
C30_CoordinateDecoding ==
  (parser \in {"gnss", "enhanced"} /\ parsed # None /\ "latitude" \in DOMAIN parsed[1]
     /\ Len(split(sentence)) >= 12 /\ ~starts_with_str(sentence, "GPVTG")) =>
    LET parts == split(sentence)
        at == IF is_rmc(sentence) THEN 3 ELSE 2
        lat == field(parts, at)
        ns == field(parts, at + 1)
        lon == field(parts, at + 2)
        ew == field(parts, at + 3)
    IN /\ decodable(lat, ns) => parsed[1].latitude = expected(lat, ns, "S")
       /\ decodable(lon, ew) => parsed[1].longitude = expected(lon, ew, "W")
       /\ (lat = <<"4807.038">> /\ ns = <<"N">>) =>
            /\ parsed[1].latitude[1] - 2887038 \in -60..60
       /\ (lon = <<"01131.000">> /\ ew = <<"E">>) =>
            /\ parsed[1].longitude[1] - 691002 \in -60..60

\* a position fix in the southern and western hemisphere, decoded
C30_Witness ==
  /\ parser = "gnss"
  /\ parsed # None
  /\ field(split(sentence), 0) = <<"$", "GPGGA">>
  /\ field(split(sentence), 3) = <<"S">>
  /\ field(split(sentence), 5) = <<"W">>
  /\ parsed[1].latitude = Some(0 - 2887038)
  /\ parsed[1].longitude = Some(0 - 691000)


\* C31: each of the four radar sentence parsers (target, scan,
\* configuration, status) returns a message exactly when the first field is
\* its own identifier and the line has at least its number of fields (6, 6,
\* 5, 3); the message then holds each numeric field that parses as the text
\* of its parsed value (and not at all when it does not parse), each text
\* field as it stands, and the last field without a '*' suffix, whatever
\* that suffix is.
C31_RadarParsers ==
  parser = "radar" =>
    LET parts == split(sentence)
        id == field(parts, 0)
        arity == CASE id = <<"$", "RADTG">> -> 6 [] id = <<"$", "RADSC">> -> 6
                   [] id = <<"$", "RADCF">> -> 5 [] id = <<"$", "RADST">> -> 3
                   [] OTHER -> 0
        accepted == arity > 0 /\ fields_of(sentence) >= arity
        \* the field as it is stored: the last one loses its checksum
        raw(i) == IF i = arity - 1
                  THEN (IF \E k \in 1..Len(parts[i + 1]) : parts[i + 1][k] = "*"
                        THEN SubSeq(parts[i + 1], 1, Len(parts[i + 1]) - 2)
                        ELSE parts[i + 1])
                  ELSE parts[i + 1]
        data == parsed[1].data
        float(key, i) ==
          IF Len(raw(i)) = 1 /\ raw(i)[1] \in DOMAIN Thousandths
          THEN key \in DOMAIN data /\ data[key] = to_string(Thousandths[raw(i)[1]])
          ELSE key \notin DOMAIN data
        whole(key, i) ==
          IF raw(i) \in {<<"-15">>, <<"1">>, <<"0">>}
          THEN key \in DOMAIN data /\ data[key] = raw(i)
          ELSE IF raw(i) \in {<<"08">>, <<"045">>}
          THEN key \in DOMAIN data /\ data[key] \in {<<"8">>, <<"45">>}
          ELSE key \notin DOMAIN data
        text(key, i) == key \in DOMAIN data /\ data[key] = raw(i)
    IN /\ parsed # None <=> accepted
       /\ accepted =>
            /\ data["sentence_type"] = id
            /\ id = <<"$", "RADTG">> =>
                 /\ float("range_nm", 1) /\ float("bearing_deg", 2)
                 /\ float("speed_kts", 3) /\ float("course_deg", 4)
                 /\ float("cpa_nm", 5)
            /\ id = <<"$", "RADSC">> =>
                 /\ float("sweep_angle", 1) /\ float("range_nm", 2)
                 /\ text("gain", 3) /\ whole("sea_clutter_db", 4)
                 /\ text("rain_clutter", 5)
            /\ id = <<"$", "RADCF">> =>
                 /\ float("range_nm", 1) /\ text("gain", 2)
                 /\ whole("sea_clutter_db", 3) /\ text("rain_clutter", 4)
            /\ id = <<"$", "RADST">> => text("status", 1) /\ text("health", 2)

\* the scan sentence "$RADSC,123.45,12.0,AUTO,-15,OFF*47": range 12.0 is
\* stored as "12", the sea clutter as "-15", the rain clutter without "*47"
C31_Witness ==
  /\ parser = "radar"
  /\ parsed # None
  /\ sentence = <<"$", "RADSC", ",", "123.45", ",", "12.0", ",", "AUTO", ",",
                  "-15", ",", "OFF", "*", "47">>
  /\ parsed[1].message_type = "RADAR_SCAN"
  /\ parsed[1].data["sweep_angle"] = <<"123.45">>
  /\ parsed[1].data["range_nm"] = <<"12">>
  /\ parsed[1].data["gain"] = <<"AUTO">>
  /\ parsed[1].data["sea_clutter_db"] = <<"-15">>
  /\ parsed[1].data["rain_clutter"] = <<"OFF">>


\* C32: a position-sentence parser chooses the variant (GGA, RMC, GLL, VTG)
\* by the sentence id alone: a line with talker id GP and the same line
\* with another talker id (GN, GL) are parsed alike, both with a result or
\* both without, and a result holds the same fields (the sentence type
\* itself apart, which the message of the position provider repeats).
C32_AnyTalker ==
  (/\ parser \in {"gps", "gnss", "enhanced"}
   /\ Len(sentence) >= 2
   /\ sentence[1] = "$"
   /\ sentence[2] \in {"GPGGA", "GPRMC", "GPGLL", "GPVTG"}) =>
    LET others == CASE sentence[2] = "GPGGA" -> {"GNGGA", "GLGGA"}
                    [] sentence[2] = "GPRMC" -> {"GNRMC", "GLRMC"}
                    [] sentence[2] = "GPGLL" -> {"GNGLL", "GLGLL"}
                    [] sentence[2] = "GPVTG" -> {"GNVTG", "GLVTG"}
        fields(r) == IF parser = "gps"
                     THEN [k \in DOMAIN r.data \ {"sentence_type", "field_0"} |-> r.data[k]]
                     ELSE r
    IN \A id \in others :
         LET other == apply(parser, [sentence EXCEPT ![2] = id])
         IN /\ parsed # None <=> other # None
            /\ parsed # None => fields(parsed[1]) = fields(other[1])


\* C33: source-configuration parsing follows the parameter table in every
\* provider: a configuration that has the required keys of its connection
\* type (serial: port; tcp: host and a numeric port) is accepted whether or
\* not the optional keys are there, an absent baud_rate being taken as 4800,
\* and as 9600 by the position provider; every other configuration fails
\* with invalid-configuration.
C33_ParameterTable ==
  [][\A cfg \in Configs :
       connect(cfg) =>
         LET ct == cfg.connection_type
             complete == \/ ct = Some("serial") /\ cfg.port # None
                         \/ ct = Some("tcp") /\ cfg.host # None /\ cfg.port = Some("n")
             stored == IF provider = "radar" THEN config' ELSE source_config'
         IN IF complete
            THEN /\ result' # Result("connect", Err("InvalidConfig"))
                 /\ (ct = Some("serial") /\ cfg.baud_rate = None /\ provider # "gpyes") =>
                      /\ stored # None
                      /\ stored[1].parameters.baud_rate =
                           Some(IF provider = "gps" THEN "9600" ELSE "4800")
            ELSE result' = Result("connect", Err("InvalidConfig"))]_vars


\* C34: the ship-type mapping gives "Cargo" for every code 70..79,
\* "Pleasure Craft" for 37, and "Unknown" exactly for the codes outside the
\* known ranges (20..37, 40..55, 58..99), such as 0, 38, 56 and 999; every
\* code gets a description.
C34_ShipTypes ==
  /\ (ship_type # None /\ ship_type_description = None) => ENABLED describe_ship_type
  /\ ship_type_description # None =>
       LET code == ship_type[1]
           description == ship_type_description[1]
           known == (20..37) \cup (40..55) \cup (58..99)
       IN /\ code \in 70..79 => description = "Cargo"
          /\ code = 37 => description = "Pleasure Craft"
          /\ code \in {0, 38, 56, 999} => description = "Unknown"
          /\ code \notin known <=> description = "Unknown"

\* code 999 has been mapped to "Unknown"
C34_Witness ==
  /\ ship_type = Some(999)
  /\ ship_type_description = Some("Unknown")


\* C35: in the simulation data link, connect with type "simulation" sets
\* Connected and appends the sample messages, connect with another type
\* fails with invalid-configuration and leaves status and queue as they
\* were; receive_message hands out the oldest queued message when Connected
\* and the queue is not empty, and nothing otherwise; disconnect sets
\* Disconnected and empties the queue.
C35_SimulationLink ==
  [][/\ \A cfg \in SimConfigs :
          (calls' = calls + 1 /\ result'.op = "connect" /\ sim_connect(cfg)) =>
            IF cfg.connection_type = Some("simulation")
            THEN /\ status' = "Connected"
                 /\ result'.value = Ok("unit")
                 /\ Len(message_queue') > Len(message_queue)
                 /\ SubSeq(message_queue', 1, Len(message_queue)) = message_queue
            ELSE /\ result'.value = Err("InvalidConfig")
                 /\ UNCHANGED <<status, message_queue>>
     /\ (calls' = calls + 1 /\ result'.op = "receive_message") =>
          IF status = "Connected" /\ message_queue # <<>>
          THEN /\ result'.value = Ok(Some(message_queue[1]))
               /\ message_queue' = Tail(message_queue)
          ELSE /\ result'.value = Ok(None)
               /\ UNCHANGED message_queue
     /\ (calls' = calls + 1 /\ result'.op = "disconnect") =>
          status' = "Disconnected" /\ message_queue' = <<>>]_vars

\* after connect, two receive_message calls have handed out the first two
\* sample messages in their order
C35_Witness ==
  /\ provider = "simulation"
  /\ status = "Connected"
  /\ received = <<DataMessage(0, 1), DataMessage(0, 2)>>
  /\ message_queue = <<DataMessage(0, 3)>>


\* C36: at any time at most one receiver task of the provider is live (it
\* has been spawned and has neither returned nor been cancelled), whatever
\* connect and disconnect calls were made, a second connect without a
\* disconnect included.
C36_SingleWriter ==
  Cardinality({t \in LinkTasks : task[t].st = "running"}) <= 1


\* C37: when connect has returned successfully, the receiver task it
\* spawned has not been ended by that return: until the next call, the task
\* is running, or has ended by itself on end of input, an error or a
\* shutdown signal; it has not been cancelled.
C37_ReceiverOutlivesConnect ==
  result = Result("connect", Ok("unit")) =>
    /\ receiver_handle # None
    /\ task[receiver_handle[1]].st \in {"running", "returned", "finished"}


\* C38: no lock is held across a suspension point: whenever a handler is
\* suspended (between two of its steps), nobody holds the lock of the
\* shared started-flag; it is released before the handler awaits the send
\* of its reply on the socket.
C38_NoLockAcrossAwait == started_lock = None


\* C39: in the server as implemented, the started-flag is tested and set in
\* one step and never cleared; at most one upstream task is ever spawned;
\* the first start_ais_stream request spawns it, and every request handled
\* when the flag is set spawns nothing and is answered with
\* ais_stream_already_started, also after the upstream task has ended.
C39_StartOnce ==
  /\ [](spawned <= 1)
  /\ [][ais_stream_started => ais_stream_started']_vars
  /\ [][\A c \in Conns :
          (conn[c].pc = "start_wait" /\ conn'[c].pc # "start_wait") =>
            IF ais_stream_started
            THEN conn'[c].pc = "already_reply" /\ upstream' = upstream
            ELSE /\ ais_stream_started'
                 /\ spawned' = spawned + 1
                 /\ conn'[c].pc = "send_failed"
                      \/ conn'[c].reply = Reply("ais_stream_started", None)]_vars
  /\ [][\A c \in Conns :
          (conn[c].pc = "already_reply" /\ conn'[c].pc # "already_reply") =>
            \/ conn'[c].pc = "send_failed"
            \/ conn'[c].reply = Reply("ais_stream_already_started", None)]_vars

\* the upstream task has ended, and a later start request was answered
\* with ais_stream_already_started
C39_Witness ==
  /\ ais_stream_started
  /\ spawned = 1
  /\ \A t \in Tasks : upstream[t] \notin Live
  /\ \E c \in Conns : conn[c].reply = Reply("ais_stream_already_started", None)


\* C40: the registry of known devices never holds the local device's own
\* address, whatever Announce, DiscoverResponse, Heartbeat and Goodbye
\* messages were handled; a Heartbeat from an address that is not in the
\* registry leaves the registry as it is, and a Goodbye removes the named
\* address and nothing else.
C40_RegistryWithoutSelf ==
  /\ [](local_device.address \notin DOMAIN known_devices)
  /\ [][\A device \in Addresses, timestamp \in 0..MaxSeen :
          (handle_heartbeat(device, timestamp) /\ device \notin DOMAIN known_devices)
            => known_devices' = known_devices]_vars
  /\ [][\A device \in Addresses :
          handle_goodbye(device) =>
            /\ DOMAIN known_devices' = DOMAIN known_devices \ {device}
            /\ \A a \in DOMAIN known_devices' : known_devices'[a] = known_devices[a]]_vars

====
